---- MODULE Spec2Model ----
(***************************************************************************)
(* ChainLogistics provenance contract (smart-contract/contracts/src).      *)
(* The persistent key-value storage of the contract is one record whose    *)
(* fields are the DataKey variants; every public entry point of            *)
(* contract.rs is an operator from (storage, arguments) to (storage',      *)
(* result, published events) and one action that applies it.               *)
(***************************************************************************)
EXTENDS Integers, Sequences, FiniteSets, TLC

VARIABLES storage, now, last, granted, handed, revoked, snap, returned, gap,
          published, outgoing

vars ==
    <<storage, now, last, granted, handed, revoked, snap, returned, gap,
      published, outgoing>>

(***************************************************************************)
(* Bounds of the model.                                                    *)
(***************************************************************************)
MaxEvents == 2
MaxTime == 1

(***************************************************************************)
(* Values.  A soroban String is its text and its length (String::len);     *)
(* a Symbol is a TLA+ string; an Address is a name; a Map<Symbol, String>  *)
(* is a function from its keys to Strings; a Vec is a sequence.            *)
(***************************************************************************)
Str(t, n) == [txt |-> t, len |-> n]

EmptyStr == Str("", 0)

Actors == {"A", "B", "C"}

Some(v) == [some |-> TRUE, val |-> v]

None == [some |-> FALSE]

Ok(v) == [ok |-> TRUE, err |-> "", val |-> v]

Err(e) == [ok |-> FALSE, err |-> e, val |-> <<>>]

Unit == <<>>

(***************************************************************************)
(* validation.rs                                                           *)
(***************************************************************************)
non_empty(s) == s.len > 0

max_len(s, max) == s.len <= max

(***************************************************************************)
(* Limits of register_product and add_tracking_event.                      *)
(***************************************************************************)
MAX_ID_LEN == 64
MAX_NAME_LEN == 128
MAX_ORIGIN_LEN == 256
MAX_CATEGORY_LEN == 64
MAX_DESCRIPTION_LEN == 2048
MAX_TAG_LEN == 64
MAX_CUSTOM_VALUE_LEN == 512
MAX_TAGS == 20
MAX_CERTIFICATIONS == 50
MAX_MEDIA_HASHES == 50
MAX_CUSTOM_FIELDS == 20
MAX_METADATA_FIELDS == 20
MAX_METADATA_VALUE_LEN == 256

(***************************************************************************)
(* storage.rs: the persistent store, keyed by DataKey.  A key that is not  *)
(* set is outside the domain of its field; EventSeq unset reads as 0       *)
(* (unwrap_or(0)); Auth holds the keys whose stored value is true.         *)
(***************************************************************************)
EmptyStorage ==
    [Product |-> <<>>, ProductEventIds |-> <<>>, Event |-> <<>>,
     EventSeq |-> 0, Auth |-> {},
     EventTypeIndex |-> <<>>, EventTypeCount |-> <<>>]

has_product(st, product_id) == product_id \in DOMAIN st.Product

put_product(st, product) ==
    [st EXCEPT !.Product = (product.id :> product) @@ @]

storage_get_product(st, product_id) ==
    IF product_id \in DOMAIN st.Product
    THEN Some(st.Product[product_id]) ELSE None

put_product_event_ids(st, product_id, ids) ==
    [st EXCEPT !.ProductEventIds = (product_id :> ids) @@ @]

get_product_event_ids(st, product_id) ==
    IF product_id \in DOMAIN st.ProductEventIds
    THEN st.ProductEventIds[product_id] ELSE <<>>

put_event(st, event) ==
    [st EXCEPT !.Event = (event.event_id :> event) @@ @]

storage_get_event(st, event_id) ==
    IF event_id \in DOMAIN st.Event THEN Some(st.Event[event_id]) ELSE None

\* Returns the store with the counter advanced and the new id.
\* next_event_id that does not store the counter it has advanced.
next_event_id_post(st) ==
    LET seq == st.EventSeq
    IN  [st |-> [st EXCEPT !.EventSeq = seq + 1], id |-> seq]

next_event_id_unsaved(st) ==
    LET seq == st.EventSeq + 1
    IN  [st |-> st, id |-> seq]

next_event_id(st) ==
    LET seq == st.EventSeq + 1
    IN  [st |-> [st EXCEPT !.EventSeq = seq], id |-> seq]

\* set_auth whose false case leaves the entry in place.
set_auth_any(st, product_id, actor, value) ==
    IF value
    THEN [st EXCEPT !.Auth = @ \cup {<<product_id, actor>>}]
    ELSE [st EXCEPT !.Auth = {e \in @ : e[2] # actor}]

set_auth_keep_key(st, product_id, actor, value) ==
    [st EXCEPT !.Auth = @ \cup (IF value THEN {<<product_id, actor>>} ELSE {})]

set_auth(st, product_id, actor, value) ==
    IF value
    THEN [st EXCEPT !.Auth = @ \cup {<<product_id, actor>>}]
    ELSE [st EXCEPT !.Auth = @ \ {<<product_id, actor>>}]

storage_is_authorized(st, product_id, actor) == <<product_id, actor>> \in st.Auth

(***************************************************************************)
(* The by-type index (DataKey::EventTypeCount, DataKey::EventTypeIndex of  *)
(* types.rs).  contract.rs calls these storage functions; their bodies     *)
(* follow the design document: read the count, increment it, store         *)
(* (product, type, newCount) -> event id, store the new count.             *)
(***************************************************************************)
storage_get_event_count_by_type(st, product_id, event_type) ==
    IF <<product_id, event_type>> \in DOMAIN st.EventTypeCount
    THEN st.EventTypeCount[<<product_id, event_type>>] ELSE 0

index_event_by_type(st, product_id, event_type, event_id) ==
    LET count == storage_get_event_count_by_type(st, product_id, event_type) + 1
    IN  [st EXCEPT
           !.EventTypeIndex =
               (<<product_id, event_type, count>> :> event_id) @@ @,
           !.EventTypeCount = (<<product_id, event_type>> :> count) @@ @]

(***************************************************************************)
(* contract.rs: helpers.  Address::require_auth is checked by the host     *)
(* against the signatures of the invocation; the invocations of the model  *)
(* carry the signatures of the addresses they name.                        *)
(***************************************************************************)
Ret(st, res, pub) == [st |-> st, res |-> res, pub |-> pub]

read_product(st, product_id) ==
    LET p == storage_get_product(st, product_id)
    IN  IF p.some THEN Ok(p.val) ELSE Err("ProductNotFound")

write_product(st, product) == put_product(st, product)

\* require_owner that lets every caller through.
require_owner_lax(product, caller) == Ok(Unit)

require_owner(product, caller) ==
    IF product.owner # caller THEN Err("Unauthorized") ELSE Ok(Unit)

\* require_can_add_event that lets only the owner through.
require_can_add_event_owner_only(st, product_id, product, caller) ==
    IF ~product.active THEN Err("InvalidInput")
    ELSE IF product.owner = caller THEN Ok(Unit)
    ELSE Err("Unauthorized")

\* require_can_add_event without the allow-list lookup.
require_can_add_event_open(st, product_id, product, caller) ==
    IF ~product.active THEN Err("InvalidInput")
    ELSE Ok(Unit)

\* require_can_add_event testing the owner before the active flag.
require_can_add_event_owner_first(st, product_id, product, caller) ==
    IF product.owner = caller THEN Ok(Unit)
    ELSE IF ~product.active THEN Err("InvalidInput")
    ELSE IF ~storage_is_authorized(st, product_id, caller) THEN Err("Unauthorized")
    ELSE Ok(Unit)

require_can_add_event(st, product_id, product, caller) ==
    IF ~product.active THEN Err("InvalidInput")
    ELSE IF product.owner = caller THEN Ok(Unit)
    ELSE IF ~storage_is_authorized(st, product_id, caller) THEN Err("Unauthorized")
    ELSE Ok(Unit)

(***************************************************************************)
(* contract.rs: register_product.                                          *)
(***************************************************************************)
\* register_product without the test for an existing product.
register_product_overwrite(st, ts, owner, id, name, description, origin_location, category, tags, certifications, media_hashes, custom) ==
    IF ~non_empty(id) THEN Ret(st, Err("InvalidProductId"), <<>>)
    ELSE IF ~max_len(id, MAX_ID_LEN)
    THEN Ret(st, Err("ProductIdTooLong"), <<>>)
    ELSE IF ~non_empty(name) THEN Ret(st, Err("InvalidProductName"), <<>>)
    ELSE IF ~max_len(name, MAX_NAME_LEN)
    THEN Ret(st, Err("ProductNameTooLong"), <<>>)
    ELSE IF ~non_empty(origin_location)
    THEN Ret(st, Err("InvalidOrigin"), <<>>)
    ELSE IF ~max_len(origin_location, MAX_ORIGIN_LEN)
    THEN Ret(st, Err("OriginTooLong"), <<>>)
    ELSE IF ~non_empty(category) THEN Ret(st, Err("InvalidCategory"), <<>>)
    ELSE IF ~max_len(category, MAX_CATEGORY_LEN)
    THEN Ret(st, Err("CategoryTooLong"), <<>>)
    ELSE IF ~max_len(description, MAX_DESCRIPTION_LEN)
    THEN Ret(st, Err("DescriptionTooLong"), <<>>)
    ELSE IF Len(tags) > MAX_TAGS THEN Ret(st, Err("TooManyTags"), <<>>)
    ELSE IF \E i \in 1..Len(tags) : ~max_len(tags[i], MAX_TAG_LEN)
    THEN Ret(st, Err("TagTooLong"), <<>>)
    ELSE IF Len(certifications) > MAX_CERTIFICATIONS
    THEN Ret(st, Err("TooManyCertifications"), <<>>)
    ELSE IF Len(media_hashes) > MAX_MEDIA_HASHES
    THEN Ret(st, Err("TooManyMediaHashes"), <<>>)
    ELSE IF Cardinality(DOMAIN custom) > MAX_CUSTOM_FIELDS
    THEN Ret(st, Err("TooManyCustomFields"), <<>>)
    ELSE IF \E k \in DOMAIN custom : ~max_len(custom[k], MAX_CUSTOM_VALUE_LEN)
    THEN Ret(st, Err("CustomFieldValueTooLong"), <<>>)
    ELSE
      LET product ==
              [id |-> id, name |-> name, description |-> description,
               origin |-> [location |-> origin_location], owner |-> owner,
               created_at |-> ts, active |-> TRUE, category |-> category,
               tags |-> tags, certifications |-> certifications,
               media_hashes |-> media_hashes, custom |-> custom]
          st1 == write_product(st, product)
          st2 == put_product_event_ids(st1, id, <<>>)
          st3 == set_auth(st2, id, owner, TRUE)
      IN  Ret(st3, Ok(product),
              << <<"product_registered", id, product>> >>)

\* register_product that tests the origin for emptiness before the id.
register_product_origin_first(st, ts, owner, id, name, description, origin_location, category, tags, certifications, media_hashes, custom) ==
    IF ~non_empty(origin_location)
    THEN Ret(st, Err("InvalidOrigin"), <<>>)
    ELSE IF ~non_empty(id) THEN Ret(st, Err("InvalidProductId"), <<>>)
    ELSE IF ~max_len(id, MAX_ID_LEN)
    THEN Ret(st, Err("ProductIdTooLong"), <<>>)
    ELSE IF ~non_empty(name) THEN Ret(st, Err("InvalidProductName"), <<>>)
    ELSE IF ~max_len(name, MAX_NAME_LEN)
    THEN Ret(st, Err("ProductNameTooLong"), <<>>)
    ELSE IF ~non_empty(origin_location)
    THEN Ret(st, Err("InvalidOrigin"), <<>>)
    ELSE IF ~max_len(origin_location, MAX_ORIGIN_LEN)
    THEN Ret(st, Err("OriginTooLong"), <<>>)
    ELSE IF ~non_empty(category) THEN Ret(st, Err("InvalidCategory"), <<>>)
    ELSE IF ~max_len(category, MAX_CATEGORY_LEN)
    THEN Ret(st, Err("CategoryTooLong"), <<>>)
    ELSE IF ~max_len(description, MAX_DESCRIPTION_LEN)
    THEN Ret(st, Err("DescriptionTooLong"), <<>>)
    ELSE IF Len(tags) > MAX_TAGS THEN Ret(st, Err("TooManyTags"), <<>>)
    ELSE IF \E i \in 1..Len(tags) : ~max_len(tags[i], MAX_TAG_LEN)
    THEN Ret(st, Err("TagTooLong"), <<>>)
    ELSE IF Len(certifications) > MAX_CERTIFICATIONS
    THEN Ret(st, Err("TooManyCertifications"), <<>>)
    ELSE IF Len(media_hashes) > MAX_MEDIA_HASHES
    THEN Ret(st, Err("TooManyMediaHashes"), <<>>)
    ELSE IF Cardinality(DOMAIN custom) > MAX_CUSTOM_FIELDS
    THEN Ret(st, Err("TooManyCustomFields"), <<>>)
    ELSE IF \E k \in DOMAIN custom : ~max_len(custom[k], MAX_CUSTOM_VALUE_LEN)
    THEN Ret(st, Err("CustomFieldValueTooLong"), <<>>)
    ELSE IF has_product(st, id)
    THEN Ret(st, Err("ProductAlreadyExists"), <<>>)
    ELSE
      LET product ==
              [id |-> id, name |-> name, description |-> description,
               origin |-> [location |-> origin_location], owner |-> owner,
               created_at |-> ts, active |-> TRUE, category |-> category,
               tags |-> tags, certifications |-> certifications,
               media_hashes |-> media_hashes, custom |-> custom]
          st1 == write_product(st, product)
          st2 == put_product_event_ids(st1, id, <<>>)
          st3 == set_auth(st2, id, owner, TRUE)
      IN  Ret(st3, Ok(product),
              << <<"product_registered", id, product>> >>)

\* register_product that publishes the stored record when it finds the
\* product registered.
register_product_announcing(st, ts, owner, id, name, description, origin_location, category, tags, certifications, media_hashes, custom) ==
    IF ~non_empty(id) THEN Ret(st, Err("InvalidProductId"), <<>>)
    ELSE IF ~max_len(id, MAX_ID_LEN)
    THEN Ret(st, Err("ProductIdTooLong"), <<>>)
    ELSE IF ~non_empty(name) THEN Ret(st, Err("InvalidProductName"), <<>>)
    ELSE IF ~max_len(name, MAX_NAME_LEN)
    THEN Ret(st, Err("ProductNameTooLong"), <<>>)
    ELSE IF ~non_empty(origin_location)
    THEN Ret(st, Err("InvalidOrigin"), <<>>)
    ELSE IF ~max_len(origin_location, MAX_ORIGIN_LEN)
    THEN Ret(st, Err("OriginTooLong"), <<>>)
    ELSE IF ~non_empty(category) THEN Ret(st, Err("InvalidCategory"), <<>>)
    ELSE IF ~max_len(category, MAX_CATEGORY_LEN)
    THEN Ret(st, Err("CategoryTooLong"), <<>>)
    ELSE IF ~max_len(description, MAX_DESCRIPTION_LEN)
    THEN Ret(st, Err("DescriptionTooLong"), <<>>)
    ELSE IF Len(tags) > MAX_TAGS THEN Ret(st, Err("TooManyTags"), <<>>)
    ELSE IF \E i \in 1..Len(tags) : ~max_len(tags[i], MAX_TAG_LEN)
    THEN Ret(st, Err("TagTooLong"), <<>>)
    ELSE IF Len(certifications) > MAX_CERTIFICATIONS
    THEN Ret(st, Err("TooManyCertifications"), <<>>)
    ELSE IF Len(media_hashes) > MAX_MEDIA_HASHES
    THEN Ret(st, Err("TooManyMediaHashes"), <<>>)
    ELSE IF Cardinality(DOMAIN custom) > MAX_CUSTOM_FIELDS
    THEN Ret(st, Err("TooManyCustomFields"), <<>>)
    ELSE IF \E k \in DOMAIN custom : ~max_len(custom[k], MAX_CUSTOM_VALUE_LEN)
    THEN Ret(st, Err("CustomFieldValueTooLong"), <<>>)
    ELSE IF has_product(st, id)
    THEN Ret(st, Err("ProductAlreadyExists"),
             << <<"product_registered", id, st.Product[id]>> >>)
    ELSE
      LET product ==
              [id |-> id, name |-> name, description |-> description,
               origin |-> [location |-> origin_location], owner |-> owner,
               created_at |-> ts, active |-> TRUE, category |-> category,
               tags |-> tags, certifications |-> certifications,
               media_hashes |-> media_hashes, custom |-> custom]
          st1 == write_product(st, product)
          st2 == put_product_event_ids(st1, id, <<>>)
          st3 == set_auth(st2, id, owner, TRUE)
      IN  Ret(st3, Ok(product),
              << <<"product_registered", id, product>> >>)

register_product(st, ts, owner, id, name, description, origin_location, category, tags, certifications, media_hashes, custom) ==
    IF ~non_empty(id) THEN Ret(st, Err("InvalidProductId"), <<>>)
    ELSE IF ~max_len(id, MAX_ID_LEN)
    THEN Ret(st, Err("ProductIdTooLong"), <<>>)
    ELSE IF ~non_empty(name) THEN Ret(st, Err("InvalidProductName"), <<>>)
    ELSE IF ~max_len(name, MAX_NAME_LEN)
    THEN Ret(st, Err("ProductNameTooLong"), <<>>)
    ELSE IF ~non_empty(origin_location)
    THEN Ret(st, Err("InvalidOrigin"), <<>>)
    ELSE IF ~max_len(origin_location, MAX_ORIGIN_LEN)
    THEN Ret(st, Err("OriginTooLong"), <<>>)
    ELSE IF ~non_empty(category) THEN Ret(st, Err("InvalidCategory"), <<>>)
    ELSE IF ~max_len(category, MAX_CATEGORY_LEN)
    THEN Ret(st, Err("CategoryTooLong"), <<>>)
    ELSE IF ~max_len(description, MAX_DESCRIPTION_LEN)
    THEN Ret(st, Err("DescriptionTooLong"), <<>>)
    ELSE IF Len(tags) > MAX_TAGS THEN Ret(st, Err("TooManyTags"), <<>>)
    ELSE IF \E i \in 1..Len(tags) : ~max_len(tags[i], MAX_TAG_LEN)
    THEN Ret(st, Err("TagTooLong"), <<>>)
    ELSE IF Len(certifications) > MAX_CERTIFICATIONS
    THEN Ret(st, Err("TooManyCertifications"), <<>>)
    ELSE IF Len(media_hashes) > MAX_MEDIA_HASHES
    THEN Ret(st, Err("TooManyMediaHashes"), <<>>)
    ELSE IF Cardinality(DOMAIN custom) > MAX_CUSTOM_FIELDS
    THEN Ret(st, Err("TooManyCustomFields"), <<>>)
    ELSE IF \E k \in DOMAIN custom : ~max_len(custom[k], MAX_CUSTOM_VALUE_LEN)
    THEN Ret(st, Err("CustomFieldValueTooLong"), <<>>)
    ELSE IF has_product(st, id)
    THEN Ret(st, Err("ProductAlreadyExists"), <<>>)
    ELSE
      LET product ==
              [id |-> id, name |-> name, description |-> description,
               origin |-> [location |-> origin_location], owner |-> owner,
               created_at |-> ts, active |-> TRUE, category |-> category,
               tags |-> tags, certifications |-> certifications,
               media_hashes |-> media_hashes, custom |-> custom]
          st1 == write_product(st, product)
          st2 == put_product_event_ids(st1, id, <<>>)
          st3 == set_auth(st2, id, owner, TRUE)
      IN  Ret(st3, Ok(product),
              << <<"product_registered", id, product>> >>)

(***************************************************************************)
(* contract.rs: the owner-only operations.                                 *)
(***************************************************************************)
add_authorized_actor(st, owner, product_id, actor) ==
    LET r == read_product(st, product_id)
    IN  IF ~r.ok THEN Ret(st, Err(r.err), <<>>)
        ELSE LET ro == require_owner(r.val, owner)
             IN  IF ~ro.ok THEN Ret(st, Err(ro.err), <<>>)
                 ELSE Ret(set_auth(st, product_id, actor, TRUE),
                          Ok(Unit), <<>>)

\* remove_authorized_actor that rejects an actor without an entry.
remove_authorized_actor_strict(st, owner, product_id, actor) ==
    LET r == read_product(st, product_id)
    IN  IF ~r.ok THEN Ret(st, Err(r.err), <<>>)
        ELSE LET ro == require_owner(r.val, owner)
             IN  IF ~ro.ok THEN Ret(st, Err(ro.err), <<>>)
                 ELSE IF ~storage_is_authorized(st, product_id, actor)
                 THEN Ret(st, Err("Unauthorized"), <<>>)
                 ELSE Ret(set_auth(st, product_id, actor, FALSE),
                          Ok(Unit), <<>>)

remove_authorized_actor(st, owner, product_id, actor) ==
    LET r == read_product(st, product_id)
    IN  IF ~r.ok THEN Ret(st, Err(r.err), <<>>)
        ELSE LET ro == require_owner(r.val, owner)
             IN  IF ~ro.ok THEN Ret(st, Err(ro.err), <<>>)
                 ELSE Ret(set_auth(st, product_id, actor, FALSE),
                          Ok(Unit), <<>>)

\* transfer_product that drops every entry of the product's allow-list.
transfer_product_keep(st, owner, product_id, new_owner) ==
    LET r == read_product(st, product_id)
    IN  IF ~r.ok THEN Ret(st, Err(r.err), <<>>)
        ELSE LET product == r.val
                 ro == require_owner(product, owner)
             IN  IF ~ro.ok THEN Ret(st, Err(ro.err), <<>>)
                 ELSE
                   LET product1 == [product EXCEPT !.owner = new_owner]
                       st2 == write_product(st, product1)
                       st3 == set_auth(st2, product_id, new_owner, TRUE)
                   IN  Ret(st3, Ok(Unit), <<>>)

transfer_product_reset(st, owner, product_id, new_owner) ==
    LET r == read_product(st, product_id)
    IN  IF ~r.ok THEN Ret(st, Err(r.err), <<>>)
        ELSE LET product == r.val
                 ro == require_owner(product, owner)
             IN  IF ~ro.ok THEN Ret(st, Err(ro.err), <<>>)
                 ELSE
                   LET st1 == [st EXCEPT !.Auth =
                                  {e \in @ : e[1] # product_id}]
                       product1 == [product EXCEPT !.owner = new_owner]
                       st2 == write_product(st1, product1)
                       st3 == set_auth(st2, product_id, new_owner, TRUE)
                   IN  Ret(st3, Ok(Unit), <<>>)

\* transfer_product that hands the product over switched on.
transfer_product_reactivating(st, owner, product_id, new_owner) ==
    LET r == read_product(st, product_id)
    IN  IF ~r.ok THEN Ret(st, Err(r.err), <<>>)
        ELSE LET product == r.val
                 ro == require_owner(product, owner)
             IN  IF ~ro.ok THEN Ret(st, Err(ro.err), <<>>)
                 ELSE
                   LET st1 == set_auth(st, product_id, product.owner, FALSE)
                       product1 == [product EXCEPT !.owner = new_owner,
                                                   !.active = TRUE]
                       st2 == write_product(st1, product1)
                       st3 == set_auth(st2, product_id, new_owner, TRUE)
                   IN  Ret(st3, Ok(Unit), <<>>)

transfer_product(st, owner, product_id, new_owner) ==
    LET r == read_product(st, product_id)
    IN  IF ~r.ok THEN Ret(st, Err(r.err), <<>>)
        ELSE LET product == r.val
                 ro == require_owner(product, owner)
             IN  IF ~ro.ok THEN Ret(st, Err(ro.err), <<>>)
                 ELSE
                   LET st1 == set_auth(st, product_id, product.owner, FALSE)
                       product1 == [product EXCEPT !.owner = new_owner]
                       st2 == write_product(st1, product1)
                       st3 == set_auth(st2, product_id, new_owner, TRUE)
                   IN  Ret(st3, Ok(Unit), <<>>)

\* set_product_active that empties the product's allow-list when it
\* switches the product off.
set_product_active_purge(st, owner, product_id, active) ==
    LET r == read_product(st, product_id)
    IN  IF ~r.ok THEN Ret(st, Err(r.err), <<>>)
        ELSE LET product == r.val
                 ro == require_owner(product, owner)
             IN  IF ~ro.ok THEN Ret(st, Err(ro.err), <<>>)
                 ELSE
                   LET product1 == [product EXCEPT !.active = active]
                       st1 == IF active THEN st
                              ELSE [st EXCEPT !.Auth =
                                       {e \in @ : e[1] # product_id}]
                   IN  Ret(write_product(st1, product1), Ok(Unit), <<>>)

\* set_product_active that drops the product's event-id list when it
\* switches the product off.
set_product_active_drop(st, owner, product_id, active) ==
    LET r == read_product(st, product_id)
    IN  IF ~r.ok THEN Ret(st, Err(r.err), <<>>)
        ELSE LET product == r.val
                 ro == require_owner(product, owner)
             IN  IF ~ro.ok THEN Ret(st, Err(ro.err), <<>>)
                 ELSE
                   LET product1 == [product EXCEPT !.active = active]
                       st1 == IF active THEN st
                              ELSE put_product_event_ids(st, product_id, <<>>)
                   IN  Ret(write_product(st1, product1), Ok(Unit), <<>>)

set_product_active(st, owner, product_id, active) ==
    LET r == read_product(st, product_id)
    IN  IF ~r.ok THEN Ret(st, Err(r.err), <<>>)
        ELSE LET product == r.val
                 ro == require_owner(product, owner)
             IN  IF ~ro.ok THEN Ret(st, Err(ro.err), <<>>)
                 ELSE
                   LET product1 == [product EXCEPT !.active = active]
                   IN  Ret(write_product(st, product1), Ok(Unit), <<>>)

(***************************************************************************)
(* contract.rs: add_tracking_event.                                        *)
(***************************************************************************)
\* add_tracking_event that leaves the by-type index alone.
add_tracking_event_unindexed(st, ts, actor, product_id, event_type, location, data_hash, note, metadata) ==
    LET r == read_product(st, product_id)
    IN  IF ~r.ok THEN Ret(st, Err(r.err), <<>>)
        ELSE
        LET product == r.val
            rc == require_can_add_event(st, product_id, product, actor)
        IN  IF ~rc.ok THEN Ret(st, Err(rc.err), <<>>)
            ELSE IF Cardinality(DOMAIN metadata) > MAX_METADATA_FIELDS
            THEN Ret(st, Err("TooManyCustomFields"), <<>>)
            ELSE IF \E k \in DOMAIN metadata :
                       ~max_len(metadata[k], MAX_METADATA_VALUE_LEN)
            THEN Ret(st, Err("CustomFieldValueTooLong"), <<>>)
            ELSE
              LET n == next_event_id(st)
                  event_id == n.id
                  event ==
                      [event_id |-> event_id, product_id |-> product_id,
                       actor |-> actor, timestamp |-> ts,
                       event_type |-> event_type, location |-> location,
                       data_hash |-> data_hash, note |-> note,
                       metadata |-> metadata]
                  st1 == put_event(n.st, event)
                  ids == Append(get_product_event_ids(st1, product_id),
                                event_id)
                  st2 == put_product_event_ids(st1, product_id, ids)
              IN  Ret(st2, Ok(event_id),
                      << <<"tracking_event", product_id, event_id, event>> >>)

\* add_tracking_event drawing the event id before the metadata checks.
add_tracking_event_eager(st, ts, actor, product_id, event_type, location, data_hash, note, metadata) ==
    LET r == read_product(st, product_id)
    IN  IF ~r.ok THEN Ret(st, Err(r.err), <<>>)
        ELSE
        LET rc == require_can_add_event(st, product_id, r.val, actor)
            n == next_event_id(st)
        IN  IF ~rc.ok THEN Ret(st, Err(rc.err), <<>>)
            ELSE IF Cardinality(DOMAIN metadata) > MAX_METADATA_FIELDS
            THEN Ret(n.st, Err("TooManyCustomFields"), <<>>)
            ELSE IF \E k \in DOMAIN metadata :
                       ~max_len(metadata[k], MAX_METADATA_VALUE_LEN)
            THEN Ret(n.st, Err("CustomFieldValueTooLong"), <<>>)
            ELSE
              LET event ==
                      [event_id |-> n.id, product_id |-> product_id,
                       actor |-> actor, timestamp |-> ts,
                       event_type |-> event_type, location |-> location,
                       data_hash |-> data_hash, note |-> note,
                       metadata |-> metadata]
                  st1 == put_event(n.st, event)
                  ids == Append(get_product_event_ids(st1, product_id), n.id)
                  st2 == put_product_event_ids(st1, product_id, ids)
                  st3 == index_event_by_type(st2, product_id, event_type, n.id)
              IN  Ret(st3, Ok(n.id),
                      << <<"tracking_event", product_id, n.id, event>> >>)

\* add_tracking_event that stores the event and leaves the product's
\* event-id list as it was.
add_tracking_event_unlisted(st, ts, actor, product_id, event_type, location, data_hash, note, metadata) ==
    LET r == read_product(st, product_id)
    IN  IF ~r.ok THEN Ret(st, Err(r.err), <<>>)
        ELSE
        LET product == r.val
            rc == require_can_add_event(st, product_id, product, actor)
        IN  IF ~rc.ok THEN Ret(st, Err(rc.err), <<>>)
            ELSE IF Cardinality(DOMAIN metadata) > MAX_METADATA_FIELDS
            THEN Ret(st, Err("TooManyCustomFields"), <<>>)
            ELSE IF \E k \in DOMAIN metadata :
                       ~max_len(metadata[k], MAX_METADATA_VALUE_LEN)
            THEN Ret(st, Err("CustomFieldValueTooLong"), <<>>)
            ELSE
              LET n == next_event_id(st)
                  event_id == n.id
                  event ==
                      [event_id |-> event_id, product_id |-> product_id,
                       actor |-> actor, timestamp |-> ts,
                       event_type |-> event_type, location |-> location,
                       data_hash |-> data_hash, note |-> note,
                       metadata |-> metadata]
                  st1 == put_event(n.st, event)
                  ids == Append(get_product_event_ids(st1, product_id),
                                event_id)
                  st2 == st1
                  st3 == index_event_by_type(st2, product_id, event_type,
                                             event_id)
              IN  Ret(st3, Ok(event_id),
                      << <<"tracking_event", product_id, event_id, event>> >>)

\* add_tracking_event that stamps the event with the time of the
\* product's registration.
add_tracking_event_stamped(st, ts, actor, product_id, event_type, location, data_hash, note, metadata) ==
    LET r == read_product(st, product_id)
    IN  IF ~r.ok THEN Ret(st, Err(r.err), <<>>)
        ELSE
        LET product == r.val
            rc == require_can_add_event(st, product_id, product, actor)
        IN  IF ~rc.ok THEN Ret(st, Err(rc.err), <<>>)
            ELSE IF Cardinality(DOMAIN metadata) > MAX_METADATA_FIELDS
            THEN Ret(st, Err("TooManyCustomFields"), <<>>)
            ELSE IF \E k \in DOMAIN metadata :
                       ~max_len(metadata[k], MAX_METADATA_VALUE_LEN)
            THEN Ret(st, Err("CustomFieldValueTooLong"), <<>>)
            ELSE
              LET n == next_event_id(st)
                  event_id == n.id
                  event ==
                      [event_id |-> event_id, product_id |-> product_id,
                       actor |-> actor, timestamp |-> product.created_at,
                       event_type |-> event_type, location |-> location,
                       data_hash |-> data_hash, note |-> note,
                       metadata |-> metadata]
                  st1 == put_event(n.st, event)
                  ids == Append(get_product_event_ids(st1, product_id),
                                event_id)
                  st2 == put_product_event_ids(st1, product_id, ids)
                  st3 == index_event_by_type(st2, product_id, event_type,
                                             event_id)
              IN  Ret(st3, Ok(event_id),
                      << <<"tracking_event", product_id, event_id, event>> >>)

add_tracking_event(st, ts, actor, product_id, event_type, location, data_hash, note, metadata) ==
    LET r == read_product(st, product_id)
    IN  IF ~r.ok THEN Ret(st, Err(r.err), <<>>)
        ELSE
        LET product == r.val
            rc == require_can_add_event(st, product_id, product, actor)
        IN  IF ~rc.ok THEN Ret(st, Err(rc.err), <<>>)
            ELSE IF Cardinality(DOMAIN metadata) > MAX_METADATA_FIELDS
            THEN Ret(st, Err("TooManyCustomFields"), <<>>)
            ELSE IF \E k \in DOMAIN metadata :
                       ~max_len(metadata[k], MAX_METADATA_VALUE_LEN)
            THEN Ret(st, Err("CustomFieldValueTooLong"), <<>>)
            ELSE
              LET n == next_event_id(st)
                  event_id == n.id
                  event ==
                      [event_id |-> event_id, product_id |-> product_id,
                       actor |-> actor, timestamp |-> ts,
                       event_type |-> event_type, location |-> location,
                       data_hash |-> data_hash, note |-> note,
                       metadata |-> metadata]
                  st1 == put_event(n.st, event)
                  ids == Append(get_product_event_ids(st1, product_id),
                                event_id)
                  st2 == put_product_event_ids(st1, product_id, ids)
                  st3 == index_event_by_type(st2, product_id, event_type,
                                             event_id)
              IN  Ret(st3, Ok(event_id),
                      << <<"tracking_event", product_id, event_id, event>> >>)

(***************************************************************************)
(* The u64 offset and limit of the paginated queries, at full width: a     *)
(* u64 is four limbs of 16 bits, least significant first, and a u32 two.   *)
(* A Vec has fewer than LIMB elements, so lengths and the indices of its   *)
(* elements are plain numbers.                                             *)
(***************************************************************************)
Min(a, b) == IF a < b THEN a ELSE b

\* The elements s[start+1] .. s[end] of s.
Slice(s, start, end) == [i \in 1..(IF end > start THEN end - start ELSE 0) |-> s[start + i]]

LIMB == 65536

U64(n) == <<n % LIMB, n \div LIMB, 0, 0>>

\* x + y on u64: the wrapped sum and whether the addition overflowed.
u64_add(x, y) ==
    LET s1 == x[1] + y[1]
        s2 == x[2] + y[2] + (s1 \div LIMB)
        s3 == x[3] + y[3] + (s2 \div LIMB)
        s4 == x[4] + y[4] + (s3 \div LIMB)
    IN  [val |-> <<s1 % LIMB, s2 % LIMB, s3 % LIMB, s4 % LIMB>>,
         overflow |-> s4 >= LIMB]

\* x < y on u64.
u64_lt(x, y) ==
    \E i \in 1..4 : x[i] < y[i] /\ \A j \in (i + 1)..4 : x[j] = y[j]

\* x as u32: the low 32 bits.
as_u32(x) == <<x[1], x[2]>>

\* x.min(len) for a u32 x and a Vec length len.
u32_min(x, len) == IF x[2] = 0 /\ x[1] < len THEN x[1] ELSE len

\* The elements s[i] for i in start..end, start a u32 and end a number not
\* above the length of s: none when start >= end.
Range32(s, start, end) ==
    IF start[2] = 0 /\ start[1] < end THEN Slice(s, start[1], end) ELSE <<>>

\* min(x, n) for a u64 x and a number n below LIMB.
u64_min(x, n) ==
    IF x[2] = 0 /\ x[3] = 0 /\ x[4] = 0 /\ x[1] < n THEN x[1] ELSE n

(***************************************************************************)
(* Paging in storage.rs.  contract.rs calls these two functions; their     *)
(* bodies follow the design document: an offset at or beyond the           *)
(* population gives no ids, otherwise the ids at positions offset+1 ..     *)
(* min(offset+limit, total), counted from 1.                               *)
(***************************************************************************)
get_product_event_ids_paginated(st, product_id, offset, limit) ==
    LET ids == get_product_event_ids(st, product_id)
    IN  IF ~u64_lt(offset, U64(Len(ids))) THEN <<>>
        ELSE Slice(ids, offset[1],
                   offset[1] + u64_min(limit, Len(ids) - offset[1]))

get_event_ids_by_type(st, product_id, event_type, offset, limit) ==
    LET total == storage_get_event_count_by_type(st, product_id, event_type)
    IN  IF ~u64_lt(offset, U64(total)) THEN <<>>
        ELSE [i \in 1..u64_min(limit, total - offset[1]) |->
                 st.EventTypeIndex[<<product_id, event_type, offset[1] + i>>]]

(***************************************************************************)
(* contract.rs: the queries.  They read the store and return a result.     *)
(* offset + event_ids.len() in get_product_events and get_events_by_type   *)
(* does not overflow: event_ids is empty unless offset is below the        *)
(* population.                                                             *)
(***************************************************************************)
\* The loop "for each id: if let Some(event) = get_event(id) { push }".
LoadEvents(st, ids) ==
    LET found == SelectSeq(ids, LAMBDA id : storage_get_event(st, id).some)
    IN  [i \in 1..Len(found) |-> storage_get_event(st, found[i]).val]

EventPage(events, total_count, has_more) ==
    [events |-> events, total_count |-> total_count, has_more |-> has_more]

get_product(st, id) == read_product(st, id)

get_product_event_ids_query(st, id) ==
    LET r == read_product(st, id)
    IN  IF ~r.ok THEN Err(r.err) ELSE Ok(get_product_event_ids(st, id))

get_event(st, event_id) ==
    LET e == storage_get_event(st, event_id)
    IN  IF e.some THEN Ok(e.val) ELSE Err("EventNotFound")

get_product_events(st, product_id, offset, limit) ==
    LET r == read_product(st, product_id)
    IN  IF ~r.ok THEN Err(r.err)
        ELSE
          LET all_ids == get_product_event_ids(st, product_id)
              total_count == Len(all_ids)
              event_ids == get_product_event_ids_paginated(st, product_id,
                                                           offset, limit)
              events == LoadEvents(st, event_ids)
              has_more ==
                  u64_lt(u64_add(offset, U64(Len(event_ids))).val,
                         U64(total_count))
          IN  Ok(EventPage(events, total_count, has_more))

\* get_events_by_type that starts one rank late.
get_events_by_type_skewed(st, product_id, event_type, offset, limit) ==
    LET r == read_product(st, product_id)
    IN  IF ~r.ok THEN Err(r.err)
        ELSE
          LET total_count ==
                  storage_get_event_count_by_type(st, product_id, event_type)
              event_ids == get_event_ids_by_type(st, product_id, event_type,
                                                 u64_add(offset, U64(1)).val,
                                                 limit)
              events == LoadEvents(st, event_ids)
              has_more ==
                  u64_lt(u64_add(offset, U64(Len(event_ids))).val,
                         U64(total_count))
          IN  Ok(EventPage(events, total_count, has_more))

get_events_by_type(st, product_id, event_type, offset, limit) ==
    LET r == read_product(st, product_id)
    IN  IF ~r.ok THEN Err(r.err)
        ELSE
          LET total_count ==
                  storage_get_event_count_by_type(st, product_id, event_type)
              event_ids == get_event_ids_by_type(st, product_id, event_type,
                                                 offset, limit)
              events == LoadEvents(st, event_ids)
              has_more ==
                  u64_lt(u64_add(offset, U64(Len(event_ids))).val,
                         U64(total_count))
          IN  Ok(EventPage(events, total_count, has_more))

\* A variant of the paging of contract.rs:378-393 that never announces a
\* further page.
PageOf_last(st, matching_ids, offset, limit, overflow_checks) ==
    LET start == as_u32(offset)
        sum == u64_add(offset, limit)
        end == u32_min(as_u32(sum.val), Len(matching_ids))
        events == LoadEvents(st, Range32(matching_ids, start, end))
    IN  IF overflow_checks /\ sum.overflow THEN Err("Trap")
        ELSE Ok(EventPage(events, Len(matching_ids), FALSE))

\* "Apply pagination" of get_events_by_time_range and get_filtered_events.
\* The two u64 additions trap when the contract is built with overflow
\* checks and wrap when it is built without them.
PageOf(st, matching_ids, offset, limit, overflow_checks) ==
    LET total_count == Len(matching_ids)
        start == as_u32(offset)
        sum == u64_add(offset, limit)
        end == u32_min(as_u32(sum.val), Len(matching_ids))
        events == LoadEvents(st, Range32(matching_ids, start, end))
        more == u64_add(offset, U64(Len(events)))
        has_more == u64_lt(more.val, U64(total_count))
    IN  IF overflow_checks /\ (sum.overflow \/ more.overflow)
        THEN Err("Trap")
        ELSE Ok(EventPage(events, total_count, has_more))

\* get_events_by_time_range with the upper bound taken exclusive.
get_events_by_time_range_open(st, product_id, start_time, end_time, offset, limit, overflow_checks) ==
    LET r == read_product(st, product_id)
    IN  IF ~r.ok THEN Err(r.err)
        ELSE
          LET all_ids == get_product_event_ids(st, product_id)
              InRange(event_id) ==
                  LET e == storage_get_event(st, event_id)
                  IN  /\ e.some
                      /\ e.val.timestamp >= start_time
                      /\ e.val.timestamp < end_time
              matching_ids == SelectSeq(all_ids, InRange)
          IN  PageOf(st, matching_ids, offset, limit, overflow_checks)

get_events_by_time_range(st, product_id, start_time, end_time, offset, limit, overflow_checks) ==
    LET r == read_product(st, product_id)
    IN  IF ~r.ok THEN Err(r.err)
        ELSE
          LET all_ids == get_product_event_ids(st, product_id)
              InRange(event_id) ==
                  LET e == storage_get_event(st, event_id)
                  IN  /\ e.some
                      /\ e.val.timestamp >= start_time
                      /\ e.val.timestamp <= end_time
              matching_ids == SelectSeq(all_ids, InRange)
          IN  PageOf(st, matching_ids, offset, limit, overflow_checks)

\* u64::MAX, the end_time that means "no upper bound": the greatest integer
\* of the model stands for it.
U64_MAX == 2147483647

get_filtered_events(st, product_id, filter, offset, limit, overflow_checks) ==
    LET r == read_product(st, product_id)
    IN  IF ~r.ok THEN Err(r.err)
        ELSE
          LET all_ids == get_product_event_ids(st, product_id)
              Matches(event_id) ==
                  LET e == storage_get_event(st, event_id)
                  IN  /\ e.some
                      /\ filter.event_type # "" =>
                            e.val.event_type = filter.event_type
                      /\ filter.start_time > 0 =>
                            e.val.timestamp >= filter.start_time
                      /\ filter.end_time < U64_MAX =>
                            e.val.timestamp <= filter.end_time
                      /\ filter.location # EmptyStr =>
                            e.val.location = filter.location
              matching_ids == SelectSeq(all_ids, Matches)
          IN  PageOf(st, matching_ids, offset, limit, overflow_checks)

\* is_authorized that looks at the allow-list only.
is_authorized_edge_only(st, product_id, actor) ==
    LET r == read_product(st, product_id)
    IN  IF ~r.ok THEN Err(r.err)
        ELSE Ok(storage_is_authorized(st, product_id, actor))

\* is_authorized that looks at the owner only.
is_authorized_owner_only(st, product_id, actor) ==
    LET r == read_product(st, product_id)
    IN  IF ~r.ok THEN Err(r.err)
        ELSE Ok(r.val.owner = actor)

is_authorized(st, product_id, actor) ==
    LET r == read_product(st, product_id)
    IN  IF ~r.ok THEN Err(r.err)
        ELSE IF r.val.owner = actor THEN Ok(TRUE)
        ELSE Ok(storage_is_authorized(st, product_id, actor))

\* get_event_count that does not look for the product.
get_event_count_lenient(st, product_id) ==
    Ok(Len(get_product_event_ids(st, product_id)))

get_event_count(st, product_id) ==
    LET r == read_product(st, product_id)
    IN  IF ~r.ok THEN Err(r.err)
        ELSE Ok(Len(get_product_event_ids(st, product_id)))

get_event_count_by_type(st, product_id, event_type) ==
    LET r == read_product(st, product_id)
    IN  IF ~r.ok THEN Err(r.err)
        ELSE Ok(storage_get_event_count_by_type(st, product_id, event_type))

(***************************************************************************)
(* Inputs of the invocations.                                              *)
(***************************************************************************)
P1 == Str("P1", 2)

P2 == Str("P2", 2)

LongId == Str("LONG-ID", MAX_ID_LEN + 1)

ProductIds == {P1}

Base(id) ==
    [id |-> id, name |-> Str("Organic Coffee Beans", 20),
     description |-> Str("Premium single-origin coffee", 28),
     origin_location |-> Str("Yirgacheffe, Ethiopia", 21),
     category |-> Str("Coffee", 6), tags |-> <<>>,
     certifications |-> <<>>, media_hashes |-> <<>>, custom |-> <<>>]

\* One input per check of register_product, and inputs failing several.
BadInputs(id) ==
    { [Base(id) EXCEPT !.name = EmptyStr],
      [Base(id) EXCEPT !.name = Str("LONG-NAME", MAX_NAME_LEN + 1)],
      [Base(id) EXCEPT !.origin_location = EmptyStr],
      [Base(id) EXCEPT !.origin_location = Str("LONG", MAX_ORIGIN_LEN + 1)],
      [Base(id) EXCEPT !.category = EmptyStr],
      [Base(id) EXCEPT !.category = Str("LONG", MAX_CATEGORY_LEN + 1)],
      [Base(id) EXCEPT !.description = Str("LONG", MAX_DESCRIPTION_LEN + 1)],
      [Base(id) EXCEPT !.tags = [i \in 1..(MAX_TAGS + 1) |-> Str("t", 1)]],
      [Base(id) EXCEPT !.tags = <<Str("LONG-TAG", MAX_TAG_LEN + 1)>>],
      [Base(id) EXCEPT
          !.certifications = [i \in 1..(MAX_CERTIFICATIONS + 1) |-> "h"]],
      [Base(id) EXCEPT
          !.media_hashes = [i \in 1..(MAX_MEDIA_HASHES + 1) |-> "h"]],
      [Base(id) EXCEPT
          !.custom = [k \in 1..(MAX_CUSTOM_FIELDS + 1) |-> Str("v", 1)]],
      [Base(id) EXCEPT
          !.custom = (1 :> Str("LONG", MAX_CUSTOM_VALUE_LEN + 1))],
      [Base(id) EXCEPT !.name = EmptyStr, !.origin_location = EmptyStr] }

ValidInputs ==
    {Base(P1), Base(P2),
     [Base(P1) EXCEPT !.name = Str("Duplicate", 9), !.description = EmptyStr]}

RegInputs ==
    ValidInputs
      \cup {Base(EmptyStr), Base(LongId),
            [Base(P1) EXCEPT !.name = EmptyStr],
            [Base(P1) EXCEPT
                !.custom = (1 :> Str("LONG", MAX_CUSTOM_VALUE_LEN + 1))]}

EventInput(t, loc, meta) ==
    [event_type |-> t, location |-> loc, data_hash |-> "h0",
     note |-> EmptyStr, metadata |-> meta]

EventInputs ==
    { EventInput("HARVEST", Str("Farm", 4), <<>>),
      EventInput("HARVEST", Str("Farm", 4),
                 [k \in 1..(MAX_METADATA_FIELDS + 1) |-> Str("v", 1)]),
      EventInput("HARVEST", Str("Farm", 4),
                 (1 :> Str("LONG", MAX_METADATA_VALUE_LEN + 1))) }

(***************************************************************************)
(* The state.  storage is the persistent store and now the ledger          *)
(* timestamp; last is the most recent invocation with its result and the   *)
(* events it published.  granted, revoked and snap are history variables:  *)
(* the (product, actor) pairs granted by add_authorized_actor and not       *)
(* removed by remove_authorized_actor since; handed, those of them whose   *)
(* actor has since owned the product and transferred it to another         *)
(* principal; revoked, the pairs revoked by remove_authorized_actor and     *)
(* neither granted nor made owner since; snap, the store as it was before  *)
(* a deactivation; returned, the event ids returned by add_tracking_event  *)
(* in call order, and gap tells whether a failed add_tracking_event came   *)
(* between two of them; published, the events published through           *)
(* env.events() so far; outgoing, the (product, principal) pairs whose     *)
(* principal gave the product away and has not been let in again.          *)
(***************************************************************************)
Rec(op, pid, who, arg, r) ==
    [op |-> op, pid |-> pid, who |-> who, arg |-> arg,
     ok |-> r.res.ok, err |-> r.res.err, val |-> r.res.val, pub |-> r.pub]

Idle(op) == Rec(op, EmptyStr, "", Unit, Ret(EmptyStorage, Ok(Unit), <<>>))

NoSnap == [phase |-> "none", pid |-> EmptyStr, st |-> EmptyStorage]

Init ==
    /\ storage = EmptyStorage
    /\ now = 0
    /\ last = Idle("init")
    /\ granted = {}
    /\ handed = {}
    /\ revoked = {}
    /\ snap = NoSnap
    /\ returned = <<>>
    /\ published = <<>>
    /\ outgoing = {}
    /\ gap = "none"

RegisterProduct(owner, inp) ==
    LET r == register_product(storage, now, owner, inp.id, inp.name,
                 inp.description, inp.origin_location, inp.category,
                 inp.tags, inp.certifications, inp.media_hashes, inp.custom)
    IN  /\ storage' = r.st
        /\ last' = Rec("register_product", inp.id, owner, Unit, r)
        /\ UNCHANGED now

AddAuthorizedActor(owner, pid, actor) ==
    LET r == add_authorized_actor(storage, owner, pid, actor)
    IN  /\ storage' = r.st
        /\ last' = Rec("add_authorized_actor", pid, owner, actor, r)
        /\ UNCHANGED now

RemoveAuthorizedActor(owner, pid, actor) ==
    LET r == remove_authorized_actor(storage, owner, pid, actor)
    IN  /\ storage' = r.st
        /\ last' = Rec("remove_authorized_actor", pid, owner, actor, r)
        /\ UNCHANGED now

TransferProduct(owner, pid, new_owner) ==
    LET r == transfer_product(storage, owner, pid, new_owner)
    IN  /\ storage' = r.st
        /\ last' = Rec("transfer_product", pid, owner, new_owner, r)
        /\ UNCHANGED now

SetProductActive(owner, pid, active) ==
    LET r == set_product_active(storage, owner, pid, active)
    IN  /\ storage' = r.st
        /\ last' = Rec("set_product_active", pid, owner, active, r)
        /\ UNCHANGED now

\* The event counter is a u64; the model stops appending at max events.
AddTrackingEvent(actor, pid, e, max) ==
    LET r == add_tracking_event(storage, now, actor, pid, e.event_type,
                 e.location, e.data_hash, e.note, e.metadata)
    IN  /\ r.res.ok => storage.EventSeq < max
        /\ storage' = r.st
        /\ last' = Rec("add_tracking_event", pid, actor, e, r)
        /\ UNCHANGED now

\* The ledger closes and its timestamp advances.
Tick ==
    /\ now < MaxTime
    /\ now' = now + 1
    /\ last' = Idle("tick")
    /\ UNCHANGED storage

(***************************************************************************)
(* The queries as invocations: they publish nothing and write nothing.     *)
(***************************************************************************)
HistNone ==
    UNCHANGED <<granted, handed, revoked, snap, returned, gap, published,
                outgoing>>

Answer(op, pid, who, arg, res) ==
    /\ last' = Rec(op, pid, who, arg, Ret(storage, res, <<>>))
    /\ UNCHANGED <<storage, now>>
    /\ HistNone

GetProduct(id) == Answer("get_product", id, "", Unit, get_product(storage, id))

GetProductEventIds(id) ==
    Answer("get_product_event_ids", id, "", Unit,
           get_product_event_ids_query(storage, id))

GetEvent(event_id) ==
    Answer("get_event", EmptyStr, "", event_id, get_event(storage, event_id))

GetProductEvents(pid, offset, limit) ==
    Answer("get_product_events", pid, "", <<offset, limit>>,
           get_product_events(storage, pid, offset, limit))

GetEventsByType(pid, t, offset, limit) ==
    Answer("get_events_by_type", pid, "", <<t, offset, limit>>,
           get_events_by_type(storage, pid, t, offset, limit))

GetEventsByTimeRange(pid, start_time, end_time, offset, limit, overflow_checks) ==
    Answer("get_events_by_time_range", pid, "",
           <<start_time, end_time, offset, limit>>,
           get_events_by_time_range(storage, pid, start_time, end_time,
                                    offset, limit, overflow_checks))

GetFilteredEvents(pid, filter, offset, limit, overflow_checks) ==
    Answer("get_filtered_events", pid, "", <<filter, offset, limit>>,
           get_filtered_events(storage, pid, filter, offset, limit,
                               overflow_checks))

IsAuthorized(pid, actor) ==
    Answer("is_authorized", pid, "", actor, is_authorized(storage, pid, actor))

GetEventCount(pid) ==
    Answer("get_event_count", pid, "", Unit, get_event_count(storage, pid))

GetEventCountByType(pid, t) ==
    Answer("get_event_count_by_type", pid, "", t,
           get_event_count_by_type(storage, pid, t))

(***************************************************************************)
(* The history variables, each a function of the invocation just made      *)
(* (last') and the store it was made on.                                   *)
(***************************************************************************)
Did(op) == last'.op = op /\ last'.ok

TrackGranted ==
    granted' =
      IF Did("add_authorized_actor")
      THEN granted \cup {<<last'.pid, last'.arg>>}
      ELSE IF Did("remove_authorized_actor")
      THEN granted \ {<<last'.pid, last'.arg>>}
      ELSE granted

TrackHanded ==
    handed' =
      IF Did("transfer_product") /\ last'.arg # last'.who
           /\ <<last'.pid, last'.who>> \in granted
      THEN handed \cup {<<last'.pid, last'.who>>}
      ELSE IF Did("add_authorized_actor") \/ Did("remove_authorized_actor")
      THEN handed \ {<<last'.pid, last'.arg>>}
      ELSE handed

TrackRevoked ==
    revoked' =
      IF Did("remove_authorized_actor")
           /\ last'.arg # storage.Product[last'.pid].owner
      THEN revoked \cup {<<last'.pid, last'.arg>>}
      ELSE IF Did("add_authorized_actor") \/ Did("transfer_product")
      THEN revoked \ {<<last'.pid, last'.arg>>}
      ELSE revoked

TrackSnap ==
    snap' =
      IF ~last'.ok \/ last'.op = "tick" THEN snap
      ELSE IF last'.op = "set_product_active" /\ ~last'.arg
                /\ storage.Product[last'.pid].active
      THEN [phase |-> "deactivated", pid |-> last'.pid, st |-> storage]
      ELSE IF last'.op = "set_product_active" /\ last'.arg
                /\ snap.phase = "deactivated" /\ snap.pid = last'.pid
      THEN [snap EXCEPT !.phase = "reactivated"]
      ELSE NoSnap

TrackReturned ==
    /\ returned' = IF Did("add_tracking_event")
                   THEN Append(returned, last'.val) ELSE returned
    /\ gap' = IF last'.op # "add_tracking_event" \/ gap = "seen" THEN gap
              ELSE IF ~last'.ok
              THEN (IF returned # <<>> THEN "between" ELSE gap)
              ELSE (IF gap = "between" THEN "seen" ELSE gap)

HistGranted ==
    /\ TrackGranted /\ TrackHanded
    /\ UNCHANGED <<revoked, snap, returned, gap, published, outgoing>>

HistRevoked ==
    /\ TrackRevoked
    /\ UNCHANGED <<granted, handed, snap, returned, gap, published, outgoing>>

HistSnap ==
    /\ TrackSnap
    /\ UNCHANGED <<granted, handed, revoked, returned, gap, published,
                    outgoing>>

HistSeq ==
    /\ TrackReturned
    /\ UNCHANGED <<granted, handed, revoked, snap, published, outgoing>>

\* The events the contract has published, in order.
TrackPublished == published' = published \o last'.pub

HistPublished ==
    /\ TrackPublished
    /\ UNCHANGED <<granted, handed, revoked, snap, returned, gap, outgoing>>

\* The (product, principal) pairs of which the principal transferred the
\* product to another principal and has since neither been granted on it
\* nor received it back.
TrackOutgoing ==
    outgoing' =
      IF Did("transfer_product")
      THEN (IF last'.arg # last'.who
            THEN outgoing \cup {<<last'.pid, last'.who>>}
            ELSE outgoing) \ {<<last'.pid, last'.arg>>}
      ELSE IF Did("add_authorized_actor")
      THEN outgoing \ {<<last'.pid, last'.arg>>}
      ELSE outgoing

HistOutgoing ==
    /\ TrackGranted /\ TrackHanded /\ TrackOutgoing
    /\ UNCHANGED <<revoked, snap, returned, gap, published>>

(***************************************************************************)
(* Spec: one product and three principals, every entry point.              *)
(***************************************************************************)
AnyRegister ==
    \E owner \in Actors, inp \in RegInputs :
        /\ inp.id \in ProductIds \cup {EmptyStr, LongId}
        /\ inp \in ValidInputs \/ owner = "A"
        /\ RegisterProduct(owner, inp)

AnyRegisterBase ==
    \E owner \in Actors, id \in ProductIds : RegisterProduct(owner, Base(id))

AnyGrant ==
    \E owner \in Actors, pid \in ProductIds, actor \in Actors :
        AddAuthorizedActor(owner, pid, actor)

AnyRevoke ==
    \E owner \in Actors, pid \in ProductIds, actor \in Actors :
        RemoveAuthorizedActor(owner, pid, actor)

AnyTransfer ==
    \E owner \in Actors, pid \in ProductIds, new_owner \in Actors :
        TransferProduct(owner, pid, new_owner)

AnySetActive ==
    \E owner \in Actors, pid \in ProductIds, active \in BOOLEAN :
        SetProductActive(owner, pid, active)

AnyAppend ==
    \E actor \in Actors, pid \in ProductIds, e \in EventInputs :
        AddTrackingEvent(actor, pid, e, MaxEvents)

Filter(t, start_time, end_time, loc) ==
    [event_type |-> t, start_time |-> start_time, end_time |-> end_time,
     location |-> loc]

Filters ==
    {Filter("", 0, U64_MAX, EmptyStr), Filter("HARVEST", 0, 0, Str("Farm", 4))}

Query ==
    \/ \E id \in ProductIds : GetProduct(id)
    \/ \E id \in ProductIds : GetProductEventIds(id)
    \/ \E event_id \in 1..MaxEvents : GetEvent(event_id)
    \/ \E pid \in ProductIds, offset \in {0, 1} :
          GetProductEvents(pid, U64(offset), U64(1))
    \/ \E pid \in ProductIds, offset \in {0, 1} :
          GetEventsByType(pid, "HARVEST", U64(offset), U64(1))
    \/ \E pid \in ProductIds, offset \in {0, 1}, checks \in BOOLEAN :
          GetEventsByTimeRange(pid, 0, 0, U64(offset), U64(1), checks)
    \/ \E pid \in ProductIds, filter \in Filters, checks \in BOOLEAN :
          GetFilteredEvents(pid, filter, U64(0), U64(1), checks)
    \/ \E pid \in ProductIds, actor \in Actors : IsAuthorized(pid, actor)
    \/ \E pid \in ProductIds : GetEventCount(pid)
    \/ \E pid \in ProductIds : GetEventCountByType(pid, "HARVEST")

Next ==
    \/ AnyRegister /\ HistNone
    \/ AnyGrant /\ HistNone
    \/ AnyRevoke /\ HistNone
    \/ AnyTransfer /\ HistNone
    \/ AnySetActive /\ HistNone
    \/ AnyAppend /\ HistNone
    \/ Query

Spec == Init /\ [][Next]_vars

(***************************************************************************)
(* The mutating entry points of Spec with one history recorded.            *)
(***************************************************************************)
NextGranted ==
    \/ AnyRegisterBase /\ HistGranted
    \/ AnyGrant /\ HistGranted
    \/ AnyRevoke /\ HistGranted
    \/ AnyTransfer /\ HistGranted
    \/ AnySetActive /\ HistGranted
    \/ AnyAppend /\ HistGranted

SpecGranted == Init /\ [][NextGranted]_vars

NextRevoked ==
    \/ AnyRegisterBase /\ HistRevoked
    \/ AnyGrant /\ HistRevoked
    \/ AnyRevoke /\ HistRevoked
    \/ AnyTransfer /\ HistRevoked
    \/ AnySetActive /\ HistRevoked
    \/ AnyAppend /\ HistRevoked

SpecRevoked == Init /\ [][NextRevoked]_vars

NextSnap ==
    \/ AnyRegisterBase /\ HistSnap
    \/ AnyGrant /\ HistSnap
    \/ AnyRevoke /\ HistSnap
    \/ AnyTransfer /\ HistSnap
    \/ AnySetActive /\ HistSnap
    \/ AnyAppend /\ HistSnap

SpecSnap == Init /\ [][NextSnap]_vars

(***************************************************************************)
(* SpecAuth: the entry points that decide or change who is authorized,     *)
(* with the history of grants.                                             *)
(***************************************************************************)
AnyValidAppend ==
    \E actor \in Actors, pid \in ProductIds :
        \E e \in {x \in EventInputs : x.metadata = <<>>} :
            AddTrackingEvent(actor, pid, e, MaxEvents)

AnyIsAuthorized ==
    \E pid \in ProductIds, actor \in Actors : IsAuthorized(pid, actor)

NextAuth ==
    \/ AnyRegisterBase /\ HistGranted
    \/ AnyGrant /\ HistGranted
    \/ AnyRevoke /\ HistGranted
    \/ AnyTransfer /\ HistGranted
    \/ AnySetActive /\ HistGranted
    \/ AnyValidAppend /\ HistGranted
    \/ AnyIsAuthorized

SpecAuth == Init /\ [][NextAuth]_vars

(***************************************************************************)
(* SpecSeq: two products and two principals; the sequencer is shared.      *)
(* The active flag is exercised on the first product.                      *)
(***************************************************************************)
SeqActors == {"A", "B"}

SeqProducts == {P1, P2}

SeqEvents == {e \in EventInputs : Cardinality(DOMAIN e.metadata) <= 1}

NextSeq ==
    \/ /\ \E owner \in SeqActors, id \in SeqProducts :
             RegisterProduct(owner, Base(id))
       /\ HistSeq
    \/ /\ \E owner \in SeqActors, pid \in SeqProducts :
             AddAuthorizedActor(owner, pid, "C")
       /\ HistSeq
    \/ /\ \E owner \in SeqActors, pid \in SeqProducts :
             RemoveAuthorizedActor(owner, pid, "C")
       /\ HistSeq
    \/ /\ \E owner \in SeqActors, pid \in SeqProducts, new_owner \in SeqActors :
             TransferProduct(owner, pid, new_owner)
       /\ HistSeq
    \/ /\ \E owner \in SeqActors, pid \in ProductIds, active \in BOOLEAN :
             SetProductActive(owner, pid, active)
       /\ HistSeq
    \/ /\ \E actor \in SeqActors, pid \in SeqProducts, e \in SeqEvents :
             AddTrackingEvent(actor, pid, e, MaxEvents)
       /\ HistSeq

SpecSeq == Init /\ [][NextSeq]_vars

(***************************************************************************)
(* SpecQuery: the owner of two products appends events of two types at     *)
(* two locations to the first and events of one kind to the second while   *)
(* the ledger time advances, and reads the events of the first back.       *)
(***************************************************************************)
QueryTypes == {"HARVEST", "SHIP"}

QueryLocations == {Str("Farm", 4), Str("Port", 4)}

QueryEvents ==
    {EventInput(t, loc, <<>>) : t \in QueryTypes, loc \in QueryLocations}

\* 2^32 and 2^64 - 1.
Two32 == <<0, 0, 1, 0>>

MaxU64 == <<LIMB - 1, LIMB - 1, LIMB - 1, LIMB - 1>>

QueryFilters ==
    {Filter("", 0, U64_MAX, EmptyStr),
     Filter("SHIP", 0, U64_MAX, EmptyStr),
     Filter("HARVEST", 1, 1, Str("Farm", 4))}

NextQuery ==
    \/ /\ \E id \in SeqProducts : RegisterProduct("A", Base(id))
       /\ HistNone
    \/ /\ \E e \in QueryEvents : AddTrackingEvent("A", P1, e, MaxEvents)
       /\ HistNone
    \/ /\ \E e \in SeqEvents : AddTrackingEvent("A", P2, e, MaxEvents)
       /\ HistNone
    \/ Tick /\ HistNone
    \/ GetEventCount(P1)
    \/ GetEventCountByType(P1, "HARVEST")
    \/ GetProductEvents(P1, U64(1), U64(1))
    \/ \E offset \in {0, 1} :
          GetEventsByType(P1, "SHIP", U64(offset), U64(1))
    \/ \E offset \in {U64(0), Two32}, checks \in BOOLEAN :
          GetEventsByTimeRange(P1, 1, 1, offset, U64(1), checks)
    \/ \E filter \in QueryFilters, limit \in {U64(1), MaxU64} :
          \E checks \in BOOLEAN :
             GetFilteredEvents(P1, filter, U64(1), limit, checks)

SpecQuery == Init /\ [][NextQuery]_vars

(***************************************************************************)
(* SpecPage: the mutations of SpecQuery with one call of each paginated    *)
(* query.                                                                  *)
(***************************************************************************)
PageEvents ==
    { EventInput("HARVEST", Str("Farm", 4), <<>>),
      EventInput("SHIP", Str("Farm", 4), <<>>),
      EventInput("HARVEST", Str("Port", 4), <<>>) }

NextPage ==
    \/ /\ \E id \in SeqProducts : RegisterProduct("A", Base(id))
       /\ HistNone
    \/ /\ \E e \in PageEvents : AddTrackingEvent("A", P1, e, MaxEvents)
       /\ HistNone
    \/ /\ AddTrackingEvent("A", P2, EventInput("HARVEST", Str("Farm", 4), <<>>),
                           MaxEvents)
       /\ HistNone
    \/ Tick /\ HistNone
    \/ GetProductEvents(P1, U64(1), U64(1))
    \/ GetEventsByType(P1, "HARVEST", U64(0), U64(1))
    \/ \E checks \in BOOLEAN :
          GetEventsByTimeRange(P1, 1, 1, U64(0), U64(2), checks)
    \/ \E checks \in BOOLEAN :
          GetFilteredEvents(P1, Filter("", 0, U64_MAX, EmptyStr), U64(0),
                            U64(1), checks)

SpecPage == Init /\ [][NextPage]_vars

(***************************************************************************)
(* SpecReg: registrations of two products by two principals, with valid    *)
(* and invalid inputs, while the first product changes hands, is switched  *)
(* off and on and receives events, and time passes.                        *)
(***************************************************************************)
NextReg ==
    \/ /\ \E owner \in SeqActors, inp \in RegInputs :
             /\ inp \in ValidInputs \/ owner = "A"
             /\ RegisterProduct(owner, inp)
       /\ HistNone
    \/ /\ \E owner \in SeqActors, new_owner \in SeqActors :
             TransferProduct(owner, P1, new_owner)
       /\ HistNone
    \/ /\ \E owner \in SeqActors, active \in BOOLEAN :
             SetProductActive(owner, P1, active)
       /\ HistNone
    \/ /\ \E actor \in SeqActors :
             AddTrackingEvent(actor, P1,
                 EventInput("HARVEST", Str("Farm", 4), <<>>), MaxEvents)
       /\ HistNone
    \/ Tick /\ HistNone

SpecReg == Init /\ [][NextReg]_vars

(***************************************************************************)
(* SpecValid: register_product applied to inputs that break up to two      *)
(* fields at once, on stores in which the product is absent, registered,   *)
(* handed over, switched off or holds an event.                            *)
(***************************************************************************)
Long(limit) == Str("LONG", limit + 1)

\* The values of each field: the valid one first, then the invalid ones.
FieldChoices ==
    [id |-> <<P1, EmptyStr, LongId>>,
     name |-> <<Base(P1).name, EmptyStr, Long(MAX_NAME_LEN)>>,
     origin_location |->
         <<Base(P1).origin_location, EmptyStr, Long(MAX_ORIGIN_LEN)>>,
     category |-> <<Base(P1).category, EmptyStr, Long(MAX_CATEGORY_LEN)>>,
     description |-> <<Base(P1).description, Long(MAX_DESCRIPTION_LEN)>>,
     tags |-> << <<>>, [i \in 1..(MAX_TAGS + 1) |-> Str("t", 1)],
                 <<Long(MAX_TAG_LEN)>>,
                 [i \in 1..(MAX_TAGS + 1) |-> Long(MAX_TAG_LEN)] >>,
     certifications |->
         << <<>>, [i \in 1..(MAX_CERTIFICATIONS + 1) |-> "h"] >>,
     media_hashes |-> << <<>>, [i \in 1..(MAX_MEDIA_HASHES + 1) |-> "h"] >>,
     custom |-> << <<>>, [k \in 1..(MAX_CUSTOM_FIELDS + 1) |-> Str("v", 1)],
                   (1 :> Long(MAX_CUSTOM_VALUE_LEN)),
                   [k \in 1..(MAX_CUSTOM_FIELDS + 1) |->
                       Long(MAX_CUSTOM_VALUE_LEN)] >>]

\* The inputs in which at most two fields have an invalid value.
OrderInputs ==
    UNION { { [f \in DOMAIN FieldChoices |->
                 IF f = f1 THEN FieldChoices[f1][c1]
                 ELSE IF f = f2 THEN FieldChoices[f2][c2]
                 ELSE FieldChoices[f][1]] :
              c1 \in 1..Len(FieldChoices[f1]), c2 \in 1..Len(FieldChoices[f2]) } :
            f1 \in DOMAIN FieldChoices, f2 \in DOMAIN FieldChoices }

\* register_product with the input kept in last.
RegisterInput(owner, inp) ==
    LET r == register_product(storage, now, owner, inp.id, inp.name,
                 inp.description, inp.origin_location, inp.category,
                 inp.tags, inp.certifications, inp.media_hashes, inp.custom)
    IN  /\ storage' = r.st
        /\ last' = Rec("register_product", inp.id, owner, inp, r)
        /\ UNCHANGED now

NextValid ==
    \/ /\ \E inp \in OrderInputs : RegisterInput("A", inp)
       /\ HistNone
    \/ /\ \E owner \in SeqActors, new_owner \in SeqActors :
             TransferProduct(owner, P1, new_owner)
       /\ HistNone
    \/ /\ \E active \in BOOLEAN : SetProductActive("A", P1, active)
       /\ HistNone
    \/ /\ AddTrackingEvent("A", P1,
              EventInput("HARVEST", Str("Farm", 4), <<>>), MaxEvents)
       /\ HistNone

SpecValid == Init /\ [][NextValid]_vars

(***************************************************************************)
(* SpecAppend: appends by the owner and by an allow-listed actor, with and *)
(* without metadata, to two products while time passes; returned keeps the *)
(* ids the appends returned.                                               *)
(***************************************************************************)
AppendEvents ==
    { EventInput("HARVEST", Str("Farm", 4), <<>>),
      [EventInput("SHIP", Str("Port", 4), (1 :> Str("B2024-001", 9)))
          EXCEPT !.data_hash = "h1", !.note = Str("Shipped", 7)],
      EventInput("HARVEST", Str("Farm", 4),
                 (1 :> Str("LONG", MAX_METADATA_VALUE_LEN + 1))) }

NextAppend ==
    \/ /\ \E id \in SeqProducts : RegisterProduct("A", Base(id))
       /\ HistSeq
    \/ /\ AddAuthorizedActor("A", P1, "B")
       /\ HistSeq
    \/ /\ \E actor \in SeqActors, e \in AppendEvents :
             AddTrackingEvent(actor, P1, e, MaxEvents)
       /\ HistSeq
    \/ /\ AddTrackingEvent("A", P2, EventInput("HARVEST", Str("Farm", 4), <<>>),
                           MaxEvents)
       /\ HistSeq
    \/ Tick /\ HistSeq

SpecAppend == Init /\ [][NextAppend]_vars

(***************************************************************************)
(* SpecMeta: the same mappings given as custom fields to register_product  *)
(* and as metadata to add_tracking_event, at and around the limits of      *)
(* both.                                                                   *)
(***************************************************************************)
MetaMaps ==
    { <<>>,
      (1 :> Str("B2024-001", 9)),
      (1 :> Str("v", MAX_METADATA_VALUE_LEN)),
      (1 :> Str("v", MAX_METADATA_VALUE_LEN + 1)),
      (1 :> Str("v", MAX_CUSTOM_VALUE_LEN)),
      (1 :> Str("v", MAX_CUSTOM_VALUE_LEN + 1)),
      [k \in 1..MAX_CUSTOM_FIELDS |-> Str("v", 1)],
      [k \in 1..(MAX_CUSTOM_FIELDS + 1) |-> Str("v", 1)] }

NextMeta ==
    \/ /\ \E id \in SeqProducts, m \in MetaMaps :
             RegisterInput("A", [Base(id) EXCEPT !.custom = m])
       /\ HistNone
    \/ /\ \E active \in BOOLEAN : SetProductActive("A", P1, active)
       /\ HistNone
    \/ /\ \E m \in MetaMaps :
             AddTrackingEvent("A", P1,
                 EventInput("HARVEST", Str("Farm", 4), m), MaxEvents)
       /\ HistNone

SpecMeta == Init /\ [][NextMeta]_vars

(***************************************************************************)
(* SpecOutgoing: one product passes between three principals, who grant    *)
(* and remove each other, switch the product off and on and append;        *)
(* granted, handed and outgoing keep who was granted and who gave the      *)
(* product away.                                                           *)
(***************************************************************************)
NextOutgoing ==
    \/ /\ RegisterProduct("A", Base(P1))
       /\ HistOutgoing
    \/ /\ \E owner \in Actors, actor \in Actors :
             AddAuthorizedActor(owner, P1, actor)
       /\ HistOutgoing
    \/ /\ \E owner \in Actors : RemoveAuthorizedActor(owner, P1, "B")
       /\ HistOutgoing
    \/ /\ \E owner \in Actors, new_owner \in Actors :
             TransferProduct(owner, P1, new_owner)
       /\ HistOutgoing
    \/ /\ \E owner \in Actors, active \in BOOLEAN :
             SetProductActive(owner, P1, active)
       /\ HistOutgoing
    \/ /\ \E actor \in Actors :
             AddTrackingEvent(actor, P1,
                 EventInput("HARVEST", Str("Farm", 4), <<>>), MaxEvents)
       /\ HistOutgoing

SpecOutgoing == Init /\ [][NextOutgoing]_vars

(***************************************************************************)
(* SpecPublished: every entry point that writes, with inputs that succeed  *)
(* and inputs that fail; published keeps the events published.             *)
(***************************************************************************)
NextPublished ==
    \/ /\ \E inp \in RegInputs : RegisterProduct("A", inp)
       /\ HistPublished
    \/ /\ AddAuthorizedActor("A", P1, "B")
       /\ HistPublished
    \/ /\ RemoveAuthorizedActor("A", P1, "B")
       /\ HistPublished
    \/ /\ \E owner \in SeqActors, new_owner \in SeqActors :
             TransferProduct(owner, P1, new_owner)
       /\ HistPublished
    \/ /\ \E active \in BOOLEAN : SetProductActive("A", P1, active)
       /\ HistPublished
    \/ /\ \E actor \in SeqActors, e \in AppendEvents :
             AddTrackingEvent(actor, P1, e, MaxEvents)
       /\ HistPublished

SpecPublished == Init /\ [][NextPublished]_vars

(***************************************************************************)
(* Properties of Spec.                                                     *)
(***************************************************************************)
Registered(pid) == pid \in DOMAIN storage.Product

\* C1: once register_product(id = X) has succeeded, every later
\* register_product with id = X fails with ProductAlreadyExists, whatever
\* the owner and the other fields are, invalid ones included.
C1_Uniqueness ==
    [][(last'.op = "register_product" /\ Registered(last'.pid))
         => (~last'.ok /\ last'.err = "ProductAlreadyExists")]_vars

\* C2: an invocation that returns an error leaves every stored item as it
\* was: records, event-id lists, events, the event counter, the
\* authorization entries and the by-type counts and index entries.
C2_AbortLeavesStorage == [][~last'.ok => storage' = storage]_vars

\* C2 happens: add_tracking_event failed on a store that holds events.
C2_Witness ==
    /\ last.op = "add_tracking_event" /\ ~last.ok
    /\ storage.EventSeq >= 1
    /\ Registered(last.pid)

(***************************************************************************)
(* Helpers of the properties below.                                        *)
(***************************************************************************)
ValidMetadata(metadata) ==
    /\ Cardinality(DOMAIN metadata) <= MAX_METADATA_FIELDS
    /\ \A k \in DOMAIN metadata : max_len(metadata[k], MAX_METADATA_VALUE_LEN)

Owner(pid) == storage.Product[pid].owner

Active(pid) == storage.Product[pid].active

\* The outcome of add_tracking_event(actor, pid, e) on the store st.
AppendResult(st, actor, pid, e) ==
    add_tracking_event(st, now, actor, pid, e.event_type, e.location,
                       e.data_hash, e.note, e.metadata)

AppendCall == last'.op = "add_tracking_event"

(***************************************************************************)
(* Properties of SpecSeq.                                                  *)
(***************************************************************************)
\* C3: the event ids returned by the successful add_tracking_event calls
\* are strictly increasing in call order, hence never repeat, also when
\* consecutive calls target different products and when failed calls come
\* between them.
C3_MonotonicIds ==
    \A i, j \in 1..Len(returned) : i < j => returned[i] < returned[j]

\* C3 happens: two ids were returned, for events of different products,
\* and an add_tracking_event failed between the two calls.
C3_Witness ==
    /\ Len(returned) >= 2
    /\ gap = "seen"
    /\ storage.Event[returned[1]].product_id
         # storage.Event[returned[2]].product_id

(***************************************************************************)
(* Properties of SpecGranted.                                              *)
(***************************************************************************)
\* C4 as stated: on an existing, active product, add_tracking_event with
\* valid metadata succeeds when the actor is the current owner, and when
\* the actor was granted by add_authorized_actor and has not been removed
\* by remove_authorized_actor since; the stored event records that actor.
C4_AsStated ==
    [][(/\ AppendCall
        /\ Registered(last'.pid)
        /\ Active(last'.pid)
        /\ ValidMetadata(last'.arg.metadata)
        /\ \/ last'.who = Owner(last'.pid)
           \/ <<last'.pid, last'.who>> \in granted)
         => (/\ last'.ok
             /\ storage'.Event[last'.val].actor = last'.who)]_vars

\* C4: on an existing, active product, add_tracking_event with valid
\* metadata succeeds when the actor is the current owner, and when the
\* actor was granted by add_authorized_actor and since that grant has
\* neither been removed by remove_authorized_actor nor, as owner,
\* transferred the product to another principal; the stored event records
\* that actor.
C4_AuthorizedAppend ==
    [][(/\ AppendCall
        /\ Registered(last'.pid)
        /\ Active(last'.pid)
        /\ ValidMetadata(last'.arg.metadata)
        /\ \/ last'.who = Owner(last'.pid)
           \/ <<last'.pid, last'.who>> \in granted \ handed)
         => (/\ last'.ok
             /\ storage'.Event[last'.val].actor = last'.who
             /\ storage'.Event[last'.val].product_id = last'.pid)]_vars

\* C4 happens: a granted actor who is not the owner appended an event,
\* after an event of the owner.
C4_Witness ==
    /\ last.op = "add_tracking_event" /\ last.ok
    /\ last.who # Owner(last.pid)
    /\ <<last.pid, last.who>> \in granted \ handed
    /\ storage.Event[last.val].actor = last.who
    /\ \E id \in DOMAIN storage.Event :
          storage.Event[id].actor = Owner(last.pid)

(***************************************************************************)
(* Properties of Spec: who may append.                                     *)
(***************************************************************************)
\* C5 as stated: for every existing product, active or not,
\* add_tracking_event by an actor who is neither the current owner nor
\* holds an allow-list entry fails with Unauthorized and appends no event.
C5_AsStated ==
    [][(/\ AppendCall
        /\ Registered(last'.pid)
        /\ last'.who # Owner(last'.pid)
        /\ <<last'.pid, last'.who>> \notin storage.Auth)
         => (/\ ~last'.ok
             /\ last'.err = "Unauthorized"
             /\ storage' = storage)]_vars

\* C5: for every existing active product, add_tracking_event by an actor
\* who is neither the current owner nor holds an allow-list entry fails
\* with Unauthorized and appends no event; on an inactive product the
\* call fails as well, with InvalidInput.
C5_UnauthorizedAppend ==
    [][(/\ AppendCall
        /\ Registered(last'.pid)
        /\ last'.who # Owner(last'.pid)
        /\ <<last'.pid, last'.who>> \notin storage.Auth)
         => (/\ ~last'.ok
             /\ last'.err = IF Active(last'.pid) THEN "Unauthorized"
                            ELSE "InvalidInput"
             /\ storage' = storage)]_vars

\* C5 happens: an actor without an entry was turned away from an active
\* product that holds events and has an allow-listed actor besides the
\* owner.
C5_Witness ==
    /\ last.op = "add_tracking_event" /\ last.err = "Unauthorized"
    /\ Registered(last.pid) /\ Active(last.pid)
    /\ ValidMetadata(last.arg.metadata)
    /\ storage.EventSeq >= 1
    /\ \E a \in Actors : a # Owner(last.pid) /\ <<last.pid, a>> \in storage.Auth

(***************************************************************************)
(* Properties of SpecRevoked.                                              *)
(***************************************************************************)
\* C6: after a successful remove_authorized_actor(owner, product, X), X
\* not being the current owner, every add_tracking_event by X on that
\* product fails, until X is granted again by add_authorized_actor or
\* becomes the owner.
C6_RevocationHolds ==
    [][(AppendCall /\ <<last'.pid, last'.who>> \in revoked)
         => (~last'.ok /\ storage' = storage)]_vars

\* C6 happens: an actor who had appended an event was revoked and then
\* turned away from the active product.
C6_Witness ==
    /\ last.op = "add_tracking_event" /\ last.err = "Unauthorized"
    /\ <<last.pid, last.who>> \in revoked
    /\ ValidMetadata(last.arg.metadata)
    /\ \E id \in DOMAIN storage.Event : storage.Event[id].actor = last.who

(***************************************************************************)
(* Properties of Spec: the active flag.                                    *)
(***************************************************************************)
\* C7: while a product's active flag is false, add_tracking_event on it
\* fails with InvalidInput for every actor (the owner, the allow-listed
\* actors and all others) and every event input; no event is stored and
\* no event id is consumed.
C7_InactiveGate ==
    \A pid \in DOMAIN storage.Product :
        ~Active(pid) =>
            \A a \in Actors, e \in EventInputs :
                AppendResult(storage, a, pid, e)
                    = Ret(storage, Err("InvalidInput"), <<>>)

\* C7 happens: the owner was turned away from the inactive product, which
\* holds events and has an allow-listed actor besides the owner and an
\* actor without an entry.
C7_Witness ==
    /\ last.op = "add_tracking_event" /\ last.err = "InvalidInput"
    /\ last.who = Owner(last.pid)
    /\ ~Active(last.pid)
    /\ storage.EventSeq >= 1
    /\ \E a \in Actors : a # Owner(last.pid) /\ <<last.pid, a>> \in storage.Auth
    /\ \E a \in Actors : a # Owner(last.pid) /\ <<last.pid, a>> \notin storage.Auth

(***************************************************************************)
(* Properties of SpecSnap.                                                 *)
(***************************************************************************)
\* The actors who can append to product pid on the store st.
CanAppend(st, pid) ==
    {a \in Actors : require_can_add_event(st, pid, st.Product[pid], a).ok}

\* C8: after set_product_active(owner, id, false) on an active product
\* followed by set_product_active(owner, id, true), the product record,
\* the set of actors who can append, the event list and the by-type
\* counts are those from before the deactivation, and every
\* add_tracking_event has the outcome it had then.
C8_ReactivationRestores ==
    snap.phase = "reactivated" =>
        /\ storage.Product[snap.pid] = snap.st.Product[snap.pid]
        /\ CanAppend(storage, snap.pid) = CanAppend(snap.st, snap.pid)
        /\ get_product_event_ids(storage, snap.pid)
             = get_product_event_ids(snap.st, snap.pid)
        /\ storage.EventTypeCount = snap.st.EventTypeCount
        /\ storage = snap.st
        /\ \A a \in Actors, e \in EventInputs :
              AppendResult(storage, a, snap.pid, e).res
                = AppendResult(snap.st, a, snap.pid, e).res

\* C8 happens: the product was switched off and on again while it held
\* an event, an allow-listed actor besides the owner and an actor who
\* cannot append.
C8_Witness ==
    /\ snap.phase = "reactivated"
    /\ last.op = "set_product_active" /\ last.ok /\ last.arg
    /\ get_product_event_ids(storage, snap.pid) # <<>>
    /\ \E a \in CanAppend(storage, snap.pid) : a # Owner(snap.pid)
    /\ CanAppend(storage, snap.pid) # Actors

(***************************************************************************)
(* Properties of SpecGranted: transfers.                                   *)
(***************************************************************************)
\* B is authorized on pid and, if pid is active, B's appends with valid
\* metadata succeed.
StaysAuthorized(pid, B) ==
    /\ is_authorized(storage, pid, B) = Ok(TRUE)
    /\ Active(pid) =>
          \A e \in EventInputs :
              ValidMetadata(e.metadata) =>
                  AppendResult(storage, B, pid, e).res.ok

\* C9 as stated: an actor B granted by add_authorized_actor on a product
\* and not removed by remove_authorized_actor remains authorized after
\* any sequence of successful transfer_product calls on that product,
\* whoever the outgoing and incoming owners are.
C9_AsStated == \A g \in granted : StaysAuthorized(g[1], g[2])

\* C9: an actor B granted by add_authorized_actor on a product and not
\* removed by remove_authorized_actor remains authorized after any
\* sequence of successful transfer_product calls on that product,
\* provided B was not, since the grant, the outgoing owner of one of
\* those transfers to another principal.
C9_GrantsSurviveTransfer ==
    \A g \in granted \ handed : StaysAuthorized(g[1], g[2])

\* C9 happens: the product went from one principal to another while a
\* third one, granted before, was on its allow-list, and the product had
\* been transferred before.
C9_Witness ==
    /\ last.op = "transfer_product" /\ last.ok /\ last.who # last.arg
    /\ Active(last.pid)
    /\ \E B \in Actors \ {last.who, last.arg} :
          <<last.pid, B>> \in granted \ handed
    /\ handed # {}

(***************************************************************************)
(* Properties of SpecSeq: the frame of a transfer.                         *)
(***************************************************************************)
\* C10: a successful transfer_product(owner, id, new_owner) changes only
\* the owner field of that product; the authorization entries of every
\* actor other than the outgoing and the incoming owner, the product's
\* active flag and descriptive fields, the event-id lists, the stored
\* events, the by-type counts and index and the event counter are
\* unchanged.
C10_TransferFrame ==
    [][Did("transfer_product") =>
         LET pid == last'.pid
             ends == {<<pid, last'.who>>, <<pid, last'.arg>>}
         IN  /\ storage'.Product =
                    [storage.Product EXCEPT ![pid].owner = last'.arg]
             /\ storage'.Auth \ ends = storage.Auth \ ends
             /\ storage'.ProductEventIds = storage.ProductEventIds
             /\ storage'.Event = storage.Event
             /\ storage'.EventTypeCount = storage.EventTypeCount
             /\ storage'.EventTypeIndex = storage.EventTypeIndex
             /\ storage'.EventSeq = storage.EventSeq]_vars

\* C10 happens: an inactive product with an event and a third actor on
\* its allow-list changed hands while another product, of the outgoing
\* owner and with the third actor on its allow-list, held an event too.
C10_Witness ==
    /\ last.op = "transfer_product" /\ last.ok /\ last.who # last.arg
    /\ Owner(last.pid) = last.arg
    /\ ~Active(last.pid)
    /\ <<last.pid, "C">> \in storage.Auth
    /\ get_product_event_ids(storage, last.pid) # <<>>
    /\ \E other \in DOMAIN storage.Product :
          /\ other # last.pid
          /\ Owner(other) = last.who
          /\ <<other, "C">> \in storage.Auth
          /\ get_product_event_ids(storage, other) # <<>>

(***************************************************************************)
(* Properties of SpecAuth.                                                 *)
(***************************************************************************)
\* C11: for every registered product is_authorized(id, current owner) is
\* true in every reachable state; a principal who was the owner stops
\* being authorized only by a successful transfer_product of that product
\* to a different principal, never by remove_authorized_actor, also when
\* it names the owner.
C11_OwnerAuthorized ==
    [][/\ \A pid \in DOMAIN storage'.Product :
             is_authorized(storage', pid, storage'.Product[pid].owner)
                = Ok(TRUE)
       /\ \A pid \in DOMAIN storage.Product :
             is_authorized(storage', pid, Owner(pid)) # Ok(TRUE)
                => /\ Did("transfer_product")
                   /\ last'.pid = pid
                   /\ last'.who = Owner(pid)
                   /\ last'.arg # Owner(pid)]_vars

\* C11 happens: the owner had removed its own allow-list entry and
\* is_authorized still answered true for it.
C11_Witness ==
    /\ last.op = "is_authorized" /\ last.ok
    /\ last.arg = Owner(last.pid)
    /\ last.val = TRUE
    /\ <<last.pid, last.arg>> \notin storage.Auth

\* The answer of is_authorized and the permission decision of
\* add_tracking_event for actor a on product pid, given the explicit
\* entries.
AuthorizedIff(pid, a, explicit) ==
    /\ is_authorized(storage, pid, a)
         = Ok(a = Owner(pid) \/ <<pid, a>> \in explicit)
    /\ Active(pid) =>
          require_can_add_event(storage, pid, storage.Product[pid], a).ok
             = is_authorized(storage, pid, a).val

\* C12 as stated: is_authorized(id, actor) on an existing product is true
\* iff actor is the current owner or holds an entry created by
\* add_authorized_actor and not since removed by remove_authorized_actor;
\* add_tracking_event's permission decision on an active product agrees.
C12_AsStated ==
    \A pid \in DOMAIN storage.Product, a \in Actors :
        AuthorizedIff(pid, a, granted)

\* C12: is_authorized(id, actor) on an existing product is true iff actor
\* is the current owner or holds an entry created by add_authorized_actor
\* and not since removed, by remove_authorized_actor or by a
\* transfer_product in which the actor was the outgoing owner and the
\* incoming owner another principal; add_tracking_event's permission
\* decision on an active product agrees with is_authorized for every
\* actor.
C12_IsAuthorizedIff ==
    \A pid \in DOMAIN storage.Product, a \in Actors :
        AuthorizedIff(pid, a, granted \ handed)

\* C12 happens: is_authorized answered true for an actor on the
\* allow-list who is not the owner, while another actor is not
\* authorized and a granted actor has transferred the product away.
C12_Witness ==
    /\ last.op = "is_authorized" /\ last.ok /\ last.val = TRUE
    /\ last.arg # Owner(last.pid)
    /\ <<last.pid, last.arg>> \in granted \ handed
    /\ \E a \in Actors : is_authorized(storage, last.pid, a) = Ok(FALSE)
    /\ handed # {}

(***************************************************************************)
(* Properties of Spec: the owner.                                          *)
(***************************************************************************)
\* C13: for every registered product the stored authorization entries
\* contain no entry whose actor is the product's current owner.
C13_OwnerNotStored ==
    \A pid \in DOMAIN storage.Product : <<pid, Owner(pid)>> \notin storage.Auth

OwnerOnlyOps ==
    {"transfer_product", "set_product_active", "add_authorized_actor",
     "remove_authorized_actor"}

\* C14: transfer_product, set_product_active, add_authorized_actor and
\* remove_authorized_actor on an existing product fail with Unauthorized
\* whenever the claimed owner is not the stored owner, and then the
\* owner, the active flag and the allow-list are unchanged.
C14_OwnerOnly ==
    [][(/\ last'.op \in OwnerOnlyOps
        /\ Registered(last'.pid)
        /\ last'.who # Owner(last'.pid))
         => (/\ ~last'.ok
             /\ last'.err = "Unauthorized"
             /\ storage'.Product = storage.Product
             /\ storage'.Auth = storage.Auth)]_vars

\* C14 happens: an allow-listed actor who is not the owner was turned
\* away from transfer_product, while another actor is not on the list.
C14_Witness ==
    /\ last.op = "transfer_product" /\ last.err = "Unauthorized"
    /\ Registered(last.pid)
    /\ last.who # Owner(last.pid)
    /\ <<last.pid, last.who>> \in storage.Auth
    /\ \E a \in Actors \ {Owner(last.pid)} :
          <<last.pid, a>> \notin storage.Auth

(***************************************************************************)
(* Properties of SpecQuery.                                                *)
(***************************************************************************)
\* The ids of the stored events of product pid on the store st, and those
\* of type t among them.
EventsOf(st, pid) ==
    {id \in DOMAIN st.Event : st.Event[id].product_id = pid}

EventsOfType(st, pid, t) ==
    {id \in EventsOf(st, pid) : st.Event[id].event_type = t}

\* The event types asked for: those in use and one never used.
AskedTypes == QueryTypes \cup {"RECALL"}

\* C15: in every reachable state, for every product and event type t,
\* get_event_count_by_type(product, t) is the number of stored events of
\* that product and type (0 for a type never used) and
\* get_event_count(product) the number of stored events of the product.
C15_Counts ==
    \A pid \in DOMAIN storage.Product :
        /\ get_event_count(storage, pid)
             = Ok(Cardinality(EventsOf(storage, pid)))
        /\ \A t \in AskedTypes :
              get_event_count_by_type(storage, pid, t)
                = Ok(Cardinality(EventsOfType(storage, pid, t)))

\* C15 happens: get_event_count_by_type answered 1 for a product while
\* the store holds a second event, of the other product or another type.
C15_Witness ==
    /\ last.op = "get_event_count_by_type" /\ last.ok
    /\ last.val = 1
    /\ Cardinality(DOMAIN storage.Event) = 2
    /\ Cardinality(EventsOfType(storage, last.pid, last.arg)) = 1

\* The event id at rank k of the by-type index of (pid, t).
Ranked(st, pid, t, k) == st.EventTypeIndex[<<pid, t, k>>]

\* Ranks 1..count of every (product, type) are assigned, to the events of
\* that product and type, in ascending event-id order.
TypeIndexDense(st) ==
    \A pid \in DOMAIN st.Product, t \in AskedTypes :
        LET c == storage_get_event_count_by_type(st, pid, t)
        IN  /\ \A k \in 1..c :
                  /\ <<pid, t, k>> \in DOMAIN st.EventTypeIndex
                  /\ Ranked(st, pid, t, k) \in EventsOfType(st, pid, t)
            /\ \A j, k \in 1..c :
                  j < k => Ranked(st, pid, t, j) < Ranked(st, pid, t, k)

PageOffsets == 0..(MaxEvents + 1)

PageLimits == 0..2

\* get_events_by_type returns the events at ranks offset+1 ..
\* min(offset+limit, count), none when offset >= count.
TypePagesByRank(st) ==
    \A pid \in DOMAIN st.Product, t \in AskedTypes :
        \A offset \in PageOffsets, limit \in PageLimits :
            LET c == storage_get_event_count_by_type(st, pid, t)
                hi == Min(offset + limit, c)
                n == IF hi > offset THEN hi - offset ELSE 0
            IN  get_events_by_type(st, pid, t, U64(offset), U64(limit))
                    .val.events
                  = [i \in 1..n |-> st.Event[Ranked(st, pid, t, offset + i)]]

\* C16: for every product and type with count c, ranks 1..c map to
\* distinct events of that product and type in ascending event-id order;
\* a rank once assigned maps to the same event in every later state; and
\* get_events_by_type(product, t, offset, limit) returns the events at
\* ranks offset+1 .. min(offset+limit, c), none when offset >= c.
C16_TypeIndex ==
    /\ [](TypeIndexDense(storage) /\ TypePagesByRank(storage))
    /\ [][\A key \in DOMAIN storage.EventTypeIndex :
             /\ key \in DOMAIN storage'.EventTypeIndex
             /\ storage'.EventTypeIndex[key] = storage.EventTypeIndex[key]]_vars

\* C16 happens: get_events_by_type with offset 1 returned the event at
\* rank 2 of its type.
C16_Witness ==
    /\ last.op = "get_events_by_type" /\ last.ok
    /\ last.arg[2] = U64(1)
    /\ Len(last.val.events) = 1
    /\ last.val.events[1].event_id = Ranked(storage, last.pid, last.arg[1], 2)
    /\ last.val.events[1].event_id > Ranked(storage, last.pid, last.arg[1], 1)

(***************************************************************************)
(* Pages, stated from the stored events.                                   *)
(***************************************************************************)
\* The ids of the set S in ascending order.
Ascending(S) ==
    [i \in 1..Cardinality(S) |->
        CHOOSE x \in S : Cardinality({y \in S : y < x}) = i - 1]

\* The page at (offset, limit) of the events with ids in S: the
\* max(0, min(limit, N - offset)) events from position offset on, N the
\* size of S.
ExpectedPage(st, S, offset, limit) ==
    LET ids == Ascending(S)
        N == Len(ids)
        n == IF N > offset THEN Min(limit, N - offset) ELSE 0
    IN  EventPage([i \in 1..n |-> st.Event[ids[offset + i]]], N,
                  offset + n < N)

\* The events of pid stamped within start_time .. end_time.
EventsInRange(st, pid, start_time, end_time) ==
    {id \in EventsOf(st, pid) :
        /\ start_time <= st.Event[id].timestamp
        /\ st.Event[id].timestamp <= end_time}

\* The events of pid that satisfy every active field of the filter.
EventsMatching(st, pid, filter) ==
    {id \in EventsOf(st, pid) :
        /\ filter.event_type = "" \/ st.Event[id].event_type = filter.event_type
        /\ filter.start_time = 0 \/ st.Event[id].timestamp >= filter.start_time
        /\ filter.end_time = U64_MAX
             \/ st.Event[id].timestamp <= filter.end_time
        /\ filter.location = EmptyStr
             \/ st.Event[id].location = filter.location}

TimeRanges == {<<0, MaxTime>>, <<1, 1>>, <<1, 0>>}

\* C17: for every existing product, get_product_events,
\* get_events_by_type, get_events_by_time_range and get_filtered_events
\* with N matching events and offset and limit within the bounds return
\* the max(0, min(limit, N - offset)) matching events from position offset
\* of the ascending event-id order, with total_count = N and
\* has_more = (offset + number of returned events < N).  The two range
\* queries are taken in the build with overflow checks: where that build
\* answers, no addition overflowed and the wrapping build computes the
\* same page.
C17_Pagination ==
    \A pid \in DOMAIN storage.Product :
      \A offset \in PageOffsets, limit \in PageLimits :
        /\ get_product_events(storage, pid, U64(offset), U64(limit))
             = Ok(ExpectedPage(storage, EventsOf(storage, pid), offset, limit))
        /\ \A t \in QueryTypes :
              get_events_by_type(storage, pid, t, U64(offset), U64(limit))
                = Ok(ExpectedPage(storage, EventsOfType(storage, pid, t),
                                  offset, limit))
        /\ \A r \in TimeRanges :
              get_events_by_time_range(storage, pid, r[1], r[2], U64(offset),
                                       U64(limit), TRUE)
                = Ok(ExpectedPage(storage,
                                  EventsInRange(storage, pid, r[1], r[2]),
                                  offset, limit))
        /\ \A filter \in QueryFilters :
              get_filtered_events(storage, pid, filter, U64(offset),
                                  U64(limit), TRUE)
                = Ok(ExpectedPage(storage,
                                  EventsMatching(storage, pid, filter),
                                  offset, limit))

\* C17 happens: get_product_events returned the second of two events as
\* the page at offset 1, with nothing more to come.
C17_Witness ==
    /\ last.op = "get_product_events" /\ last.ok
    /\ last.arg = <<U64(1), U64(1)>>
    /\ last.val.total_count = 2
    /\ Len(last.val.events) = 1
    /\ last.val.events[1].event_id = 2
    /\ ~last.val.has_more

\* Offsets and limits over the whole u64 range: the small ones, 2^32 and
\* 2^64 - 1.
WideOffsets == {U64(o) : o \in PageOffsets} \cup {Two32, MaxU64}

WideLimits == {U64(0), U64(1), MaxU64}

\* An answer that is an empty page with nothing more to come.
EmptyLastPage(r) == r.ok /\ r.val.events = <<>> /\ ~r.val.has_more

\* C18: for every existing product, every u64 offset and limit (2^32 and
\* 2^64 - 1 included) and either build, get_events_by_time_range and
\* get_filtered_events called with offset >= the number of matching events
\* answer with an empty events list and has_more = FALSE: they neither
\* fail nor return events.
C18_AsStated ==
    \A pid \in DOMAIN storage.Product :
      \A offset \in WideOffsets, limit \in WideLimits, checks \in BOOLEAN :
        /\ \A r \in TimeRanges :
              ~u64_lt(offset,
                      U64(Cardinality(EventsInRange(storage, pid, r[1], r[2]))))
                => EmptyLastPage(get_events_by_time_range(storage, pid, r[1],
                                     r[2], offset, limit, checks))
        /\ \A filter \in QueryFilters :
              ~u64_lt(offset,
                      U64(Cardinality(EventsMatching(storage, pid, filter))))
                => EmptyLastPage(get_filtered_events(storage, pid, filter,
                                     offset, limit, checks))

\* Offsets and limits under which total_count is compared.
CountOffsets == {U64(0), U64(1), Two32}

CountLimits == {U64(1), MaxU64}

\* C19: for every existing product, get_events_by_time_range answers with
\* total_count = the number of the product's events with
\* start_time <= timestamp <= end_time (0 when start_time > end_time), and
\* get_filtered_events with total_count = the number of the product's
\* events that satisfy every active field of the filter, whatever offset
\* and limit are; the call answers unless the build checks overflow and
\* offset + limit overflows.
C19_TotalCount ==
    \A pid \in DOMAIN storage.Product :
      \A offset \in CountOffsets, limit \in CountLimits, checks \in BOOLEAN :
        /\ \A r \in TimeRanges :
              LET res == get_events_by_time_range(storage, pid, r[1], r[2],
                                                  offset, limit, checks)
              IN  IF res.ok
                  THEN res.val.total_count
                         = Cardinality(EventsInRange(storage, pid, r[1], r[2]))
                  ELSE checks /\ u64_add(offset, limit).overflow
        /\ \A filter \in QueryFilters :
              LET res == get_filtered_events(storage, pid, filter, offset,
                                             limit, checks)
              IN  IF res.ok
                  THEN res.val.total_count
                         = Cardinality(EventsMatching(storage, pid, filter))
                  ELSE checks /\ u64_add(offset, limit).overflow

\* C19 happens: get_events_by_time_range over 1 .. 1 counted one of the two
\* events of the product, and with an inverted range it would count none.
C19_Witness ==
    /\ last.op = "get_events_by_time_range" /\ last.ok
    /\ Cardinality(EventsOf(storage, last.pid)) = 2
    /\ last.val.total_count = 1
    /\ EventsInRange(storage, last.pid, 1, 0) = {}

\* The filter with every field at its sentinel.
SentinelFilter == Filter("", 0, U64_MAX, EmptyStr)

\* C20: for every existing product, every u64 offset and limit and either
\* build, get_filtered_events with all four filter fields at their
\* sentinels returns what get_product_events returns: the same events,
\* total_count and has_more.
C20_AsStated ==
    \A pid \in DOMAIN storage.Product :
      \A offset \in WideOffsets, limit \in WideLimits, checks \in BOOLEAN :
        get_filtered_events(storage, pid, SentinelFilter, offset, limit, checks)
          = get_product_events(storage, pid, offset, limit)

(***************************************************************************)
(* Properties of the event log.                                            *)
(***************************************************************************)
\* The event-id list of every product is strictly increasing.
ListsIncreasing(st) ==
    \A pid \in DOMAIN st.ProductEventIds :
      \A i, j \in 1..Len(st.ProductEventIds[pid]) :
         i < j => st.ProductEventIds[pid][i] < st.ProductEventIds[pid][j]

\* The positions of event id e in the event-id list of pid.
PositionsOf(st, pid, e) ==
    {i \in 1..Len(get_product_event_ids(st, pid)) :
        get_product_event_ids(st, pid)[i] = e}

\* Every stored event belongs to a registered product, is listed once by
\* that product and by no other.
NoOrphans(st) ==
    \A e \in DOMAIN st.Event :
      /\ st.Event[e].event_id = e
      /\ has_product(st, st.Event[e].product_id)
      /\ \A pid \in DOMAIN st.ProductEventIds :
            Cardinality(PositionsOf(st, pid, e))
              = IF pid = st.Event[e].product_id THEN 1 ELSE 0

\* C22: (a) an event that get_event returns is returned unchanged after
\* every step, whatever the invocation; (b) every product's event-id list
\* is strictly increasing; (c) every stored event names a registered
\* product, and its id occurs exactly once in that product's event-id list
\* and in no other product's list.
C22_EventsImmutable ==
    /\ [](ListsIncreasing(storage) /\ NoOrphans(storage))
    /\ [][\A e \in DOMAIN storage.Event :
             get_event(storage', e) = get_event(storage, e)]_vars

\* C22 happens: two products hold an event each, the product of the first
\* event has changed owner and is inactive.
C22_Witness ==
    /\ DOMAIN storage.Event = {1, 2}
    /\ storage.Event[1].product_id = P1
    /\ storage.Event[2].product_id = P2
    /\ storage.Product[P1].owner # storage.Event[1].actor
    /\ ~storage.Product[P1].active

(***************************************************************************)
(* Properties of set_product_active.                                       *)
(***************************************************************************)
\* The answers of the queries on pid that do not return the record.
QueriesOf(st, pid) ==
    [event |-> [e \in 1..(MaxEvents + 1) |-> get_event(st, e)],
     ids |-> get_product_event_ids_query(st, pid),
     events |-> [o \in PageOffsets |->
                    get_product_events(st, pid, U64(o), U64(2))],
     by_type |-> [t \in AskedTypes |->
                    get_events_by_type(st, pid, t, U64(0), U64(MaxEvents))],
     count |-> get_event_count(st, pid),
     count_by_type |-> [t \in AskedTypes |->
                          get_event_count_by_type(st, pid, t)],
     authorized |-> [a \in Actors |-> is_authorized(st, pid, a)]]

\* The store differs from st only in the active field of pid, now active.
OnlyActiveChanged(st, st1, pid, active) ==
    st1 = [st EXCEPT !.Product[pid].active = active]

\* C23 as stated: a successful set_product_active changes only the active
\* field of the product, and every query, get_product included, answers
\* on the product as it did before the call.
C23_AsStated ==
    [][Did("set_product_active") =>
         /\ OnlyActiveChanged(storage, storage', last'.pid, last'.arg)
         /\ QueriesOf(storage', last'.pid) = QueriesOf(storage, last'.pid)
         /\ get_product(storage', last'.pid)
              = get_product(storage, last'.pid)]_vars

\* C23: a successful set_product_active(owner, id, active) changes only
\* the active field of that product: owner, descriptive fields,
\* allow-list, event-id lists, stored events, by-type counts and index are
\* unchanged; get_product returns the record it returned before with
\* active replaced, and get_event, get_product_event_ids,
\* get_product_events, get_events_by_type, get_event_count,
\* get_event_count_by_type and is_authorized answer as before.
C23_SoftFlag ==
    [][Did("set_product_active") =>
         /\ OnlyActiveChanged(storage, storage', last'.pid, last'.arg)
         /\ QueriesOf(storage', last'.pid) = QueriesOf(storage, last'.pid)
         /\ get_product(storage', last'.pid)
              = Ok([storage.Product[last'.pid]
                       EXCEPT !.active = last'.arg])]_vars

\* C23 happens: an active product with an event and an allow-listed actor
\* was switched off.
C23_Witness ==
    /\ last.op = "set_product_active" /\ last.ok /\ ~last.arg
    /\ ~Active(last.pid)
    /\ get_product_event_ids(storage, last.pid) # <<>>
    /\ <<last.pid, "C">> \in storage.Auth
    /\ snap.phase = "deactivated" /\ snap.pid = last.pid

(***************************************************************************)
(* Properties of the records.                                              *)
(***************************************************************************)
\* The record with the two fields that may change masked.
Identity(product) == [product EXCEPT !.owner = "", !.active = TRUE]

\* C24: a registered product stays registered and get_product returns a
\* record with the id, name, description, origin, category, tags,
\* certifications, media_hashes, custom and created_at it had after the
\* step before; owner differs only after a successful transfer_product of
\* that product and active only after a successful set_product_active of
\* it; the record is stored under its own id and its owner is one
\* principal.
C24_RecordsKept ==
    /\ [](\A pid \in DOMAIN storage.Product :
            /\ storage.Product[pid].id = pid
            /\ storage.Product[pid].owner \in Actors)
    /\ [][\A pid \in DOMAIN storage.Product :
            /\ get_product(storage', pid).ok
            /\ Identity(get_product(storage', pid).val)
                 = Identity(storage.Product[pid])
            /\ storage'.Product[pid].owner # storage.Product[pid].owner
                 => Did("transfer_product") /\ last'.pid = pid
            /\ storage'.Product[pid].active # storage.Product[pid].active
                 => Did("set_product_active") /\ last'.pid = pid]_vars

\* C24 happens: a registered product that has changed owner and been
\* switched off was registered again by a former owner; the call failed
\* and the record kept its name.
C24_Witness ==
    /\ last.op = "register_product" /\ ~last.ok
    /\ last.err = "ProductAlreadyExists"
    /\ Registered(last.pid)
    /\ storage.Product[last.pid].name = Base(last.pid).name
    /\ ~Active(last.pid)
    /\ Owner(last.pid) # last.who
    /\ storage.Product[last.pid].created_at < now
    /\ get_product_event_ids(storage, last.pid) # <<>>

(***************************************************************************)
(* Properties of the validation of register_product.                       *)
(***************************************************************************)
\* The fifteen constraints in their order, each with its error.
Constraints(inp) ==
    << <<inp.id.len = 0, "InvalidProductId">>,
       <<inp.id.len > MAX_ID_LEN, "ProductIdTooLong">>,
       <<inp.name.len = 0, "InvalidProductName">>,
       <<inp.name.len > MAX_NAME_LEN, "ProductNameTooLong">>,
       <<inp.origin_location.len = 0, "InvalidOrigin">>,
       <<inp.origin_location.len > MAX_ORIGIN_LEN, "OriginTooLong">>,
       <<inp.category.len = 0, "InvalidCategory">>,
       <<inp.category.len > MAX_CATEGORY_LEN, "CategoryTooLong">>,
       <<inp.description.len > MAX_DESCRIPTION_LEN, "DescriptionTooLong">>,
       <<Len(inp.tags) > MAX_TAGS, "TooManyTags">>,
       <<\E i \in 1..Len(inp.tags) : inp.tags[i].len > MAX_TAG_LEN,
         "TagTooLong">>,
       <<Len(inp.certifications) > MAX_CERTIFICATIONS,
         "TooManyCertifications">>,
       <<Len(inp.media_hashes) > MAX_MEDIA_HASHES, "TooManyMediaHashes">>,
       <<Cardinality(DOMAIN inp.custom) > MAX_CUSTOM_FIELDS,
         "TooManyCustomFields">>,
       <<\E k \in DOMAIN inp.custom :
             inp.custom[k].len > MAX_CUSTOM_VALUE_LEN,
         "CustomFieldValueTooLong">> >>

Violated(inp) == {i \in 1..Len(Constraints(inp)) : Constraints(inp)[i][1]}

\* The error of the first violated constraint.
FirstError(inp) ==
    Constraints(inp)[CHOOSE i \in Violated(inp) :
                        \A j \in Violated(inp) : i <= j][2]

\* C25: in every reachable state and for every input that violates one or
\* more of the fifteen constraints (id empty, id too long, name empty,
\* name too long, origin empty, origin too long, category empty, category
\* too long, description too long, too many tags, tag too long, too many
\* certifications, too many media hashes, too many custom fields, custom
\* value too long), register_product returns the error of the first
\* violated constraint in that order: the same error in every state of
\* the store, whoever calls.
C25_ValidationOrder ==
    \A inp \in OrderInputs, owner \in SeqActors :
        Violated(inp) # {} =>
            register_product(storage, now, owner, inp.id, inp.name,
                inp.description, inp.origin_location, inp.category, inp.tags,
                inp.certifications, inp.media_hashes, inp.custom).res
              = Err(FirstError(inp))

\* C25 happens: register_product was called for a registered product with
\* an input violating two constraints and returned the error of the
\* earlier one.
C25_Witness ==
    /\ last.op = "register_product" /\ ~last.ok
    /\ Registered(last.pid)
    /\ Cardinality(Violated(last.arg)) = 2
    /\ last.err = "OriginTooLong"
    /\ FirstError(last.arg) = "OriginTooLong"

(***************************************************************************)
(* Properties of a registration.                                           *)
(***************************************************************************)
\* The page without events of a product without events.
NoEvents == Ok(EventPage(<<>>, 0, FALSE))

\* Every paginated query on pid answers with the empty page, for the
\* offsets in os and the limits in ls, in either build.
AllPagesEmpty(st, pid, os, ls) ==
    \A offset \in os, limit \in ls :
      /\ get_product_events(st, pid, offset, limit) = NoEvents
      /\ \A t \in AskedTypes :
            get_events_by_type(st, pid, t, offset, limit) = NoEvents
      /\ \A r \in TimeRanges, checks \in BOOLEAN :
            get_events_by_time_range(st, pid, r[1], r[2], offset, limit,
                                     checks) = NoEvents
      /\ \A filter \in QueryFilters, checks \in BOOLEAN :
            get_filtered_events(st, pid, filter, offset, limit, checks)
              = NoEvents

\* The record of a registration of pid by owner at time ts is stored and
\* returned, the product has no events, and the event counter, the events
\* and everything of the other products are as in st.
Registration(st, st1, pid, owner, ts, res) ==
    /\ \E inp \in ValidInputs :
          res = Ok([id |-> pid, name |-> inp.name,
                    description |-> inp.description,
                    origin |-> [location |-> inp.origin_location],
                    owner |-> owner, created_at |-> ts, active |-> TRUE,
                    category |-> inp.category, tags |-> inp.tags,
                    certifications |-> inp.certifications,
                    media_hashes |-> inp.media_hashes,
                    custom |-> inp.custom])
    /\ get_product(st1, pid) = res
    /\ get_event_count(st1, pid) = Ok(0)
    /\ get_product_event_ids_query(st1, pid) = Ok(<<>>)
    /\ st1.EventSeq = st.EventSeq
    /\ st1.Event = st.Event
    /\ st1.EventTypeCount = st.EventTypeCount
    /\ st1.EventTypeIndex = st.EventTypeIndex
    /\ \A other \in DOMAIN st.Product :
          /\ other # pid
          /\ st1.Product[other] = st.Product[other]
          /\ st1.ProductEventIds[other] = st.ProductEventIds[other]
    /\ {e \in st1.Auth : e[1] # pid} = {e \in st.Auth : e[1] # pid}

\* C26: after a successful register_product(owner, id, ..) the record
\* with that id and owner, active and with created_at the ledger
\* timestamp, is stored and returned by get_product, get_event_count(id)
\* is 0, every paginated query on id, whatever its u64 offset and limit,
\* returns the empty page with total_count 0, and the event counter and
\* the other products are unchanged.
C26_AsStated ==
    [][Did("register_product") =>
         /\ Registration(storage, storage', last'.pid, last'.who, now,
                         Ok(last'.val))
         /\ AllPagesEmpty(storage', last'.pid, WideOffsets, WideLimits)]_vars

(***************************************************************************)
(* Properties of an append.                                                *)
(***************************************************************************)
\* Ok(n + 1) for the count Ok(n).
Grown(count) == Ok(count.val + 1)

\* C27: after a successful add_tracking_event(actor, product, type,
\* location, hash, note, metadata) that returned e, get_event(e) returns
\* the event with event_id e, those product, actor, type, location, hash,
\* note and metadata and the ledger timestamp; the product's event-id
\* list is the former list with e appended; get_event_count(product) and
\* get_event_count_by_type(product, type) have grown by 1, and the counts
\* of every other type and of every other product are as before.
C27_AppendRoundTrip ==
    [][Did("add_tracking_event") =>
         LET e == last'.val
             pid == last'.pid
             inp == last'.arg
         IN  /\ get_event(storage', e)
                  = Ok([event_id |-> e, product_id |-> pid,
                        actor |-> last'.who, timestamp |-> now,
                        event_type |-> inp.event_type,
                        location |-> inp.location,
                        data_hash |-> inp.data_hash, note |-> inp.note,
                        metadata |-> inp.metadata])
             /\ get_product_event_ids_query(storage', pid)
                  = Ok(Append(get_product_event_ids(storage, pid), e))
             /\ get_event_count(storage', pid)
                  = Grown(get_event_count(storage, pid))
             /\ \A q \in DOMAIN storage.Product, t \in AskedTypes :
                   get_event_count_by_type(storage', q, t)
                     = IF q = pid /\ t = inp.event_type
                       THEN Grown(get_event_count_by_type(storage, q, t))
                       ELSE get_event_count_by_type(storage, q, t)
             /\ \A q \in DOMAIN storage.Product \ {pid} :
                   get_event_count(storage', q) = get_event_count(storage, q)]_vars

\* C27 happens: the allow-listed actor appended an event with metadata
\* and a note, after the product's registration time, to a product that
\* held an event of another type, with the other product registered.
C27_Witness ==
    /\ last.op = "add_tracking_event" /\ last.ok
    /\ last.who # Owner(last.pid)
    /\ last.arg.metadata # <<>> /\ last.arg.note # EmptyStr
    /\ storage.Event[last.val].timestamp > storage.Product[last.pid].created_at
    /\ Len(get_product_event_ids(storage, last.pid)) = 2
    /\ get_event_count_by_type(storage, last.pid, "HARVEST") = Ok(1)
    /\ \E q \in DOMAIN storage.Product :
          q # last.pid /\ get_event_count(storage, q) = Ok(0)

(***************************************************************************)
(* Properties of the not-found errors.                                     *)
(***************************************************************************)
\* An id that no registration of the model uses.
P9 == Str("P9", 2)

\* The answer is the error ProductNotFound.
NotFound(r) == ~r.ok /\ r.err = "ProductNotFound"

\* The invocation failed with ProductNotFound and left the store as it was.
Refused(st, r) == NotFound(r.res) /\ r.st = st

\* Every entry point that writes refuses pid, whoever calls.
WritesRefused(st, pid) ==
    \A a \in Actors, b \in Actors :
      /\ Refused(st, add_authorized_actor(st, a, pid, b))
      /\ Refused(st, remove_authorized_actor(st, a, pid, b))
      /\ Refused(st, transfer_product(st, a, pid, b))
      /\ \A active \in BOOLEAN :
            Refused(st, set_product_active(st, a, pid, active))
      /\ \A e \in AppendEvents : Refused(st, AppendResult(st, a, pid, e))

\* Every query refuses pid.
QueriesRefused(st, pid) ==
    /\ NotFound(get_product(st, pid))
    /\ NotFound(get_product_event_ids_query(st, pid))
    /\ NotFound(get_event_count(st, pid))
    /\ \A t \in AskedTypes : NotFound(get_event_count_by_type(st, pid, t))
    /\ \A a \in Actors : NotFound(is_authorized(st, pid, a))
    /\ \A offset \in {U64(0), MaxU64}, limit \in {U64(1), MaxU64} :
          /\ NotFound(get_product_events(st, pid, offset, limit))
          /\ \A t \in AskedTypes :
                NotFound(get_events_by_type(st, pid, t, offset, limit))
          /\ \A checks \in BOOLEAN :
                /\ NotFound(get_events_by_time_range(st, pid, 0, MaxTime,
                                offset, limit, checks))
                /\ NotFound(get_filtered_events(st, pid, SentinelFilter,
                                offset, limit, checks))

\* The ids in the sequence ids.
Elements(ids) == {ids[i] : i \in 1..Len(ids)}

\* The answer is the error EventNotFound.
EventNotFound(r) == ~r.ok /\ r.err = "EventNotFound"

\* C28: in every reachable state, every operation other than
\* register_product called with a product id that is not registered
\* returns ProductNotFound, whoever the caller is and without changing the
\* store, and get_event returns EventNotFound for every id that no
\* successful add_tracking_event has returned.
C28_NotFound ==
    /\ \A pid \in (SeqProducts \cup {P9}) \ DOMAIN storage.Product :
          WritesRefused(storage, pid) /\ QueriesRefused(storage, pid)
    /\ \A e \in (0..(MaxEvents + 1)) \ Elements(returned) :
          EventNotFound(get_event(storage, e))

\* C28 happens: add_tracking_event was refused for a product that is not
\* registered, called by the owner of a registered product that holds an
\* event.
C28_Witness ==
    /\ last.op = "add_tracking_event" /\ last.err = "ProductNotFound"
    /\ ~Registered(last.pid)
    /\ Registered(P1) /\ Owner(P1) = last.who
    /\ returned # <<>>

(***************************************************************************)
(* Properties of the allow-list operations.                                *)
(***************************************************************************)
\* The invocation succeeded and left the store as it was.
NoOp(st, r) == r.res.ok /\ r.st = st

\* C29: in every reachable state and for the owner of every registered
\* product, remove_authorized_actor of an actor without an allow-list
\* entry succeeds and leaves the store unchanged; add_authorized_actor of
\* an actor with an entry succeeds and leaves the allow-list unchanged;
\* and add_authorized_actor followed by remove_authorized_actor of an
\* actor who is not the owner and had no entry both succeed and restore
\* the allow-list.  A remove or add of the first two kinds that has just
\* been invoked has changed nothing.
C29_AllowListAlgebra ==
    /\ [](\A pid \in DOMAIN storage.Product, a \in Actors :
            LET o == Owner(pid)
                added == add_authorized_actor(storage, o, pid, a)
                removed == remove_authorized_actor(storage, o, pid, a)
                both == remove_authorized_actor(added.st, o, pid, a)
            IN  /\ ~storage_is_authorized(storage, pid, a)
                     => NoOp(storage, removed)
                /\ storage_is_authorized(storage, pid, a)
                     => added.res.ok /\ added.st.Auth = storage.Auth
                /\ (a # o /\ ~storage_is_authorized(storage, pid, a))
                     => /\ added.res.ok /\ both.res.ok
                        /\ storage_is_authorized(added.st, pid, a)
                        /\ both.st.Auth = storage.Auth)
    /\ [][/\ (Did("remove_authorized_actor")
               /\ ~storage_is_authorized(storage, last'.pid, last'.arg))
              => storage' = storage
          /\ (Did("add_authorized_actor")
               /\ storage_is_authorized(storage, last'.pid, last'.arg))
              => storage'.Auth = storage.Auth]_vars

\* C29 happens: remove_authorized_actor by the owner has succeeded for an
\* actor other than the owner, who is now without an entry, on a product
\* whose allow-list holds another actor besides the owner.
C29_Witness ==
    /\ last.op = "remove_authorized_actor" /\ last.ok
    /\ last.arg # Owner(last.pid)
    /\ <<last.pid, last.arg>> \in revoked
    /\ \E a \in Actors \ {last.arg, Owner(last.pid)} :
          <<last.pid, a>> \in storage.Auth

(***************************************************************************)
(* Properties of the published events.                                     *)
(***************************************************************************)
\* The number of published events of the kind topic.
Published(topic) ==
    Cardinality({i \in 1..Len(published) : published[i][1] = topic})

\* C30: every successful register_product publishes exactly one
\* "product_registered" event with the stored record, every successful
\* add_tracking_event exactly one "tracking_event" event with the stored
\* event and its id, and an invocation that returns an error publishes
\* nothing; in every reachable state the number of published
\* "product_registered" events is the number of stored records and the
\* number of published "tracking_event" events the number of stored
\* events.
C30_Notifications ==
    /\ [](/\ Published("product_registered")
               = Cardinality(DOMAIN storage.Product)
          /\ Published("tracking_event") = Cardinality(DOMAIN storage.Event)
          /\ Len(published)
               = Published("product_registered") + Published("tracking_event"))
    /\ [][/\ Did("register_product")
               => last'.pub = << <<"product_registered", last'.pid,
                                   storage'.Product[last'.pid]>> >>
          /\ Did("add_tracking_event")
               => last'.pub = << <<"tracking_event", last'.pid, last'.val,
                                   storage'.Event[last'.val]>> >>
          /\ ~last'.ok => last'.pub = <<>>]_vars

\* C30 happens: after two registrations and an append had published
\* their events, a registration of a registered product failed.
C30_Witness ==
    /\ last.op = "register_product" /\ ~last.ok
    /\ last.err = "ProductAlreadyExists"
    /\ Published("product_registered") = 2
    /\ Published("tracking_event") >= 1

(***************************************************************************)
(* Properties of the limits on mappings.                                   *)
(***************************************************************************)
\* The result of add_tracking_event by the owner of the product pid with
\* the metadata m.
AsMetadata(pid, m) ==
    add_tracking_event(storage, now, Owner(pid), pid, "HARVEST",
        Str("Farm", 4), "h0", EmptyStr, m).res

\* The result of register_product of the product id, otherwise valid, with
\* the custom fields m.
AsCustom(id, m) ==
    register_product(storage, now, "A", id, Base(id).name,
        Base(id).description, Base(id).origin_location, Base(id).category,
        <<>>, <<>>, <<>>, m).res

\* C31: add_tracking_event by an authorized actor on an active product
\* accepts a mapping as metadata if and only if register_product with
\* otherwise valid fields and a fresh id accepts it as custom fields, and
\* both refuse it with the same error.
C31_AsStated ==
    (/\ P1 \in DOMAIN storage.Product
     /\ Active(P1)
     /\ P2 \notin DOMAIN storage.Product)
    => \A m \in MetaMaps :
          /\ AsMetadata(P1, m).ok <=> AsCustom(P2, m).ok
          /\ ~AsMetadata(P1, m).ok
                => AsMetadata(P1, m).err = AsCustom(P2, m).err

(***************************************************************************)
(* Properties of the two paths to the events of one type.                  *)
(***************************************************************************)
\* The filter that only asks for the event type t.
TypeFilter(t) == Filter(t, 0, U64_MAX, EmptyStr)

\* The two results are the same error, or the same page.
SameAnswer(a, b) ==
    /\ a.ok <=> b.ok
    /\ ~a.ok => a.err = b.err
    /\ a.ok => a.val = b.val

\* C32: for every product, every event type (the empty symbol too), every
\* offset and limit, get_events_by_type answers with the same events in
\* the same order, the same total_count and the same has_more as
\* get_filtered_events with a filter of that event type and the other three
\* fields at their sentinels.
C32_AsStated ==
    \A pid \in DOMAIN storage.Product :
      \A t \in AskedTypes \cup {""} :
        \A offset \in WideOffsets, limit \in WideLimits, checks \in BOOLEAN :
          SameAnswer(get_events_by_type(storage, pid, t, offset, limit),
                     get_filtered_events(storage, pid, TypeFilter(t), offset,
                                         limit, checks))

(***************************************************************************)
(* Properties of the event sequence counter.                               *)
(***************************************************************************)
RECURSIVE ListedIn(_, _)
\* The sum of the lengths of the event-id lists of the products in pids.
ListedIn(st, pids) ==
    IF pids = {} THEN 0
    ELSE LET pid == CHOOSE x \in pids : TRUE
         IN  Len(st.ProductEventIds[pid]) + ListedIn(st, pids \ {pid})

\* C33: in every reachable state the stored event ids are exactly
\* 1..EventSeq, EventSeq is the number of stored events and the sum of the
\* lengths of all products' event-id lists, and the first id ever returned
\* is 1; an add_tracking_event that fails leaves EventSeq as it was, so no
\* id is skipped.
C33_DenseIds ==
    /\ [](/\ DOMAIN storage.Event = 1..storage.EventSeq
          /\ storage.EventSeq = Cardinality(DOMAIN storage.Event)
          /\ storage.EventSeq
               = ListedIn(storage, DOMAIN storage.ProductEventIds)
          /\ returned # <<>> => returned[1] = 1)
    /\ [][/\ (last'.op = "add_tracking_event" /\ ~last'.ok)
               => storage'.EventSeq = storage.EventSeq
          /\ Did("add_tracking_event")
               => /\ last'.val = storage.EventSeq + 1
                  /\ storage'.EventSeq = last'.val]_vars

\* C33 happens: a failed append came between two successful ones, and the
\* counter stands at the number of events the two products hold together.
C33_Witness ==
    /\ gap = "seen"
    /\ storage.EventSeq = MaxEvents
    /\ \A pid \in SeqProducts :
          /\ pid \in DOMAIN storage.ProductEventIds
          /\ storage.ProductEventIds[pid] # <<>>
    /\ last.op = "add_tracking_event" /\ ~last.ok

(***************************************************************************)
(* Properties of the principal who gave a product away.                    *)
(***************************************************************************)
\* The result r is the error Unauthorized.
Unauthorized(r) == ~r.ok /\ r.err = "Unauthorized"

\* The principal a has no authority on the product pid: is_authorized
\* answers false, an append fails with Unauthorized while the product is
\* active, and so does every owner-only operation.
Stripped(pid, a) ==
    /\ is_authorized(storage, pid, a).ok
    /\ ~is_authorized(storage, pid, a).val
    /\ Active(pid) =>
          Unauthorized(add_tracking_event(storage, now, a, pid, "HARVEST",
                           Str("Farm", 4), "h0", EmptyStr, <<>>).res)
    /\ \A b \in Actors :
          /\ Unauthorized(add_authorized_actor(storage, a, pid, b).res)
          /\ Unauthorized(remove_authorized_actor(storage, a, pid, b).res)
          /\ Unauthorized(transfer_product(storage, a, pid, b).res)
    /\ \A active \in BOOLEAN :
          Unauthorized(set_product_active(storage, a, pid, active).res)

\* C34: from a successful transfer_product of a product by A to another
\* principal on, and until A is granted on the product or receives it back,
\* is_authorized answers false for A, add_tracking_event by A fails with
\* Unauthorized on the active product and every owner-only operation by A
\* fails with Unauthorized, also when A had been granted by an earlier
\* owner before owning the product; and the invocations A makes in that
\* time fail so.
C34_OutgoingOwner ==
    /\ [](\A e \in outgoing : Stripped(e[1], e[2]))
    /\ [][(/\ <<last'.pid, last'.who>> \in outgoing
           /\ \/ last'.op \in OwnerOnlyOps
              \/ last'.op = "add_tracking_event" /\ Active(last'.pid))
            => (/\ ~last'.ok
                /\ last'.err = "Unauthorized"
                /\ storage' = storage)]_vars

\* C34 happens: a principal granted by an earlier owner became owner, gave
\* the product away, and their append to the active product failed.
C34_Witness ==
    /\ <<last.pid, last.who>> \in outgoing
    /\ <<last.pid, last.who>> \in handed
    /\ last.op = "add_tracking_event"
    /\ Active(last.pid)
    /\ last.err = "Unauthorized"

(***************************************************************************)
(* Properties of the separation of products.                               *)
(***************************************************************************)
\* What the store holds under the keys of the product pid: its record, its
\* authorization entries, its event-id list, its events, and its by-type
\* counts and index.
Slot(st, pid) ==
    [record |-> storage_get_product(st, pid),
     allowed |-> {e \in st.Auth : e[1] = pid},
     ids |-> get_product_event_ids(st, pid),
     events |-> [i \in {j \in DOMAIN st.Event : st.Event[j].product_id = pid}
                   |-> st.Event[i]],
     counts |-> [k \in {c \in DOMAIN st.EventTypeCount : c[1] = pid}
                   |-> st.EventTypeCount[k]],
     index |-> [k \in {c \in DOMAIN st.EventTypeIndex : c[1] = pid}
                   |-> st.EventTypeIndex[k]]]

\* C35: every invocation on a product leaves what the store holds of every
\* other product unchanged (record, allow-list, event-id list, events,
\* by-type counts and index); a principal authorized on one product and
\* neither owner of nor allow-listed on another cannot append to the
\* other.
C35_Isolation ==
    /\ [][\A q \in SeqProducts \ {last'.pid} :
             Slot(storage', q) = Slot(storage, q)]_vars
    /\ [](\A p \in DOMAIN storage.Product, q \in DOMAIN storage.Product :
             \A a \in Actors :
                (/\ p # q
                 /\ is_authorized(storage, p, a).val
                 /\ a # Owner(q)
                 /\ <<q, a>> \notin storage.Auth
                 /\ Active(q))
                  => Unauthorized(add_tracking_event(storage, now, a, q,
                         "HARVEST", Str("Farm", 4), "h0", EmptyStr, <<>>).res))

\* C35 happens: the owner of one product, which holds an event and an
\* allow-list entry, tried to append to another product, which holds an
\* event too, and was refused.
C35_Witness ==
    /\ last.op = "add_tracking_event" /\ last.err = "Unauthorized"
    /\ get_product_event_ids(storage, last.pid) # <<>>
    /\ \E p \in DOMAIN storage.Product :
          /\ p # last.pid
          /\ Owner(p) = last.who
          /\ <<p, "C">> \in storage.Auth
          /\ get_product_event_ids(storage, p) # <<>>

====
